---------------------------- MODULE Spec2Model ----------------------------
(***************************************************************************)
(* FitAssist-AI: the trend engine, the weekly compliance classifier, the   *)
(* rule-based watchdog and the advisory combiner, as state machines.       *)
(*                                                                         *)
(* Numbers are fixed point.  Dates are day numbers (day 0 is a Monday, so  *)
(* the ISO (year, week) of day d is d \div 7).  Trend weights are whole    *)
(* kilograms in the daily frame and milli-kilograms inside the forecaster. *)
(* Calories are kcal; RMR is held in deci-kcal.    A pandas mean is held as *)
(* the pair (sum, n) of the non-missing values, n = 0 being NaN, so that   *)
(* comparisons against a threshold are exact.  NaN is a sentinel integer   *)
(* outside every value range; every comparison with NaN is false, as for   *)
(* IEEE floats.                                                            *)
(***************************************************************************)
EXTENDS Integers, Sequences, FiniteSets, TLC

VARIABLES
    df,          \* the daily frame handed to the watchdog / classifier: a sequence of rows
    fit,         \* what XGBRegressor fit+predict yields on df (or the error forecast_metric raises)
    sex,         \* user profile: "male" | "female"
    goal_info,   \* None or the goal record
    clock,       \* wall clock, in half days
    wd,          \* outcomes of the run_watchdog calls on the current arguments
    advice,      \* outcome of the last combine step
    cf,          \* the daily frame handed to the classifier: a sequence of rows
    nb,          \* the pickled model file next to compliance_nb.py
    cls,         \* outcome of the last predict_weekly_state call
    raw,         \* the frame handed to smooth_and_impute
    span,        \* the span argument of smooth_and_impute
    cleaned,     \* outcomes of smooth_and_impute on raw and on its own output
    trended,     \* outcomes of add_trend_columns on the cleaned frame and on its own output
    report,      \* the report pipeline of run.py: its frame, its position, what it logged
    est,         \* one pass of the forecast loop: its inputs and what it yields
    win          \* the weekly windows built from df and from cf

vars == <<df, fit, sex, goal_info, clock, wd, advice, cf, nb, cls, raw, span, cleaned, trended,
          report, est, win>>

NaN == 0 - 999999
None == "None"

IsNaN(x) == x = NaN

Max2(a, b) == IF b > a THEN b ELSE a
Min2(a, b) == IF b < a THEN b ELSE a

(***************************************************************************)
(* Bounds of the model.                                                    *)
(***************************************************************************)
MaxRows == 2
MaxClock == 26

(***************************************************************************)
(* config/constants.py                                                     *)
(***************************************************************************)
SAFE_MIN_CALORIES == 1200
SAFE_MAX_WEIGHT_LOSS_RATE == 2
SAFE_MAX_WEIGHT_GAIN_RATE == 2
RMR_FLOOR == 1000
ADAPT_THRESH_PCT == 8
GAP_THRESH == 5

(***************************************************************************)
(* src/tools/energy.py                                                     *)
(***************************************************************************)
Sexes == {"male", "female"}

\* y of the Livingston-Kohlstadt formula, in centi-kcal per year (5.92, 5.09)
RMR_y(s) == IF s = "male" THEN 592 ELSE 509

\* c * w^p in deci-kcal at w = 0, 10, 20, ..., 200 kg (c = 293, p = 0.433 for
\* male; c = 248, p = 0.4356 for female), rounded to the nearest integer
PowTableMale ==
    <<0, 7941, 10720, 12778, 14473, 15941, 17251, 18441,
      19539, 20561, 21521, 22428, 23289, 24110, 24897,
      25652, 26379, 27080, 27759, 28416, 29055>>

PowTableFemale ==
    <<0, 6762, 9145, 10912, 12368, 13631, 14758, 15783,
      16728, 17608, 18435, 19217, 19959, 20667, 21345,
      21997, 22624, 23229, 23815, 24382, 24933>>

PowTable(s) == IF s = "male" THEN PowTableMale ELSE PowTableFemale

\* c * max(w, 0)^p for a weight in milli-kg, linear between the table's nodes
\* (exact at the nodes, which is where the daily frame's weights lie)
Interpolate(t, k, r) == t[k + 1] + ((t[k + 2] - t[k + 1]) * r) \div 10000

Clamped(wmg) == Min2(Max2(wmg, 0), 199999)

CPow(s, wmg) == Interpolate(PowTable(s), Clamped(wmg) \div 10000, Clamped(wmg) % 10000)

\* calculate_age, in days (the code divides by 365.25 where the age is used)
calculate_age(dob, d) == d - dob

\* calculate_rmr with a = 0, in deci-kcal; weight in milli-kg, age in days.
\* y * age = y * days / 365.25 = y * days * 4 / 1461, y being in centi-kcal
calculate_rmr(wmg, ageDays, s) ==
    IF IsNaN(wmg) THEN NaN
    ELSE Max2(CPow(s, wmg) - (RMR_y(s) * ageDays * 4) \div 14610, 0)


(***************************************************************************)
(* The daily frame.  A row is [date, cal, out, wt]: the date,              *)
(* TrendCaloriesIn, TrendBasalCaloriesBurned + TrendActiveCaloriesBurned,  *)
(* and TrendWeight                                                         *)
(* (kg, or NaN).  The frame carries no TrendNetCalories column, so the     *)
(* weekly builders derive it.                                              *)
(***************************************************************************)
RowSet == [date : {0, 1, 7}, cal : {1000, 1200}, out : {1700}, wt : {NaN, 20, 80}]

\* date of birth: 30 years before day 0
DobDay == 0 - 10957

IsoWeek(d) == d \div 7

RECURSIVE SeqSum(_)
SeqSum(s) == IF s = <<>> THEN 0 ELSE Head(s) + SeqSum(Tail(s))

RECURSIVE SeqMax(_)
SeqMax(s) == IF Len(s) = 1 THEN s[1] ELSE Max2(s[1], SeqMax(Tail(s)))

NotNaN(x) == x # NaN

\* Series.mean(): NaN skipped; the pair (sum, n), n = 0 standing for NaN
Mean(s) ==
    LET v == SelectSeq(s, NotNaN) IN [sum |-> SeqSum(v), n |-> Len(v)]

\* groupby "first" / "last": the first / last non-missing value in row order
First(s) == LET v == SelectSeq(s, NotNaN) IN IF v = <<>> THEN NaN ELSE v[1]
Last(s)  == LET v == SelectSeq(s, NotNaN) IN IF v = <<>> THEN NaN ELSE v[Len(v)]

(***************************************************************************)
(* src/watchdog/feature_builder.py                                         *)
(***************************************************************************)
WINDOW_WEEKS == 12

\* line 73: RMR of a row (deci-kcal), NaN where TrendWeight is missing
RowRMR(r, dob, s) ==
    calculate_rmr(IF IsNaN(r.wt) THEN NaN ELSE r.wt * 1000,
                  calculate_age(dob, r.date), s)

\* line 75: df["RMR"].max(), NaN when every RMR is missing
peak_rmr(frame, dob, s) ==
    LET v == SelectSeq([i \in 1..Len(frame) |-> RowRMR(frame[i], dob, s)], NotNaN)
    IN  IF v = <<>> THEN NaN ELSE SeqMax(v)

\* lines 60-65: TrendNetCalories derived when the column is absent
RowNet(r) == IF IsNaN(r.cal) THEN NaN ELSE r.cal - r.out

\* lines 79-94: the aggregate of one ISO week
WeeklyRow(frame, k, dob, s) ==
    LET rows == SelectSeq(frame, LAMBDA r : IsoWeek(r.date) = k)
        rmrs == [i \in 1..Len(rows) |-> RowRMR(rows[i], dob, s)]
        peak == peak_rmr(frame, dob, s)
        m    == Mean(rmrs)
        wts  == [i \in 1..Len(rows) |-> rows[i].wt]
        s_wt == First(wts)
        e_wt == Last(wts)
    IN  [ week          |-> k,
          week_end_date |-> SeqMax([i \in 1..Len(rows) |-> rows[i].date]),
          mean_cal_in   |-> Mean([i \in 1..Len(rows) |-> rows[i].cal]),
          mean_net_cal  |-> Mean([i \in 1..Len(rows) |-> RowNet(rows[i])]),
          start_wt      |-> s_wt,
          end_wt        |-> e_wt,
          wt_change     |-> IF IsNaN(s_wt) \/ IsNaN(e_wt) THEN NaN ELSE e_wt - s_wt,
          rmr           |-> m,
          \* mean of 1 - RMR/peak over the week = (n*peak - sum) / (n*peak);
          \* den = 0 stands for NaN (no RMR in the week, or 0/0 at peak = 0)
          adaptation    |-> IF m.n = 0 \/ IsNaN(peak) \/ peak = 0
                            THEN [num |-> 0, den |-> 0]
                            ELSE [num |-> m.n * peak - m.sum, den |-> m.n * peak] ]

RECURSIVE SortedWeeks(_)
SortedWeeks(S) ==
    IF S = {} THEN <<>>
    ELSE LET k == CHOOSE x \in S : \A y \in S : x <= y
         IN  <<k>> \o SortedWeeks(S \ {k})

Tail12(s) ==
    IF Len(s) <= WINDOW_WEEKS THEN s
    ELSE SubSeq(s, Len(s) - WINDOW_WEEKS + 1, Len(s))

\* One row per ISO week, sorted by week_end_date, the 12 most recent kept.
\* Weeks are disjoint date ranges, so week_end_date order is week order.
build_watchdog_features(frame, dob, s) ==
    LET ks == SortedWeeks({IsoWeek(frame[i].date) : i \in 1..Len(frame)})
    IN  Tail12([j \in 1..Len(ks) |-> WeeklyRow(frame, ks[j], dob, s)])


(***************************************************************************)
(* src/predict/forecast_metric.py, as far as the goal rule uses it.  The   *)
(* fitted regressor is not modelled: fit is the error forecast_metric      *)
(* raises on this frame, or model.predict(X_latest)[0], the predicted      *)
(* change of TrendWeight over one window, in milli-kg.                     *)
(***************************************************************************)
FORECAST_WINDOW == 21
FRAC == 100 * 100

\* df.sort_values("date"): the frame's rows are kept in date order by LogDay
LastRow(frame) == frame[Len(frame)]

\* lines 173-175: the row where the running maximum of TrendWeight first
\* reaches its overall maximum (0 when every weight is missing)
PeakIdx(frame) ==
    LET v == SelectSeq([i \in 1..Len(frame) |-> frame[i].wt], NotNaN)
    IN  IF v = <<>> THEN 0
        ELSE CHOOSE i \in 1..Len(frame) :
                /\ frame[i].wt = SeqMax(v)
                /\ \A j \in 1..(i - 1) : frame[j].wt # SeqMax(v)

\* estimate_rmr_adaptation, as a multiple of 1/FRAC; weights in milli-kg.
\* max(0.0, min(nan, 1.0)) is 0.0, so a missing RMR gives no adaptation.
Adaptation(rmr_start, rmr_now) ==
    IF IsNaN(rmr_start) \/ IsNaN(rmr_now) \/ rmr_start = 0 THEN 0
    ELSE Max2(0, Min2(FRAC - (rmr_now * FRAC) \div rmr_start, FRAC))

estimate_rmr_adaptation(w_start, age_start, w_now, age_now, s) ==
    Adaptation(calculate_rmr(w_start, age_start, s), calculate_rmr(w_now, age_now, s))

\* lines 169-175: what the forecast loop reads from the frame: the current
\* trend value and date, and the weight and age at the peak-weight row
ForecastBase(frame, dob) ==
    LET pk == PeakIdx(frame)
    IN  [ current   |-> LastRow(frame).wt,
          last_date |-> LastRow(frame).date,
          peak_w    |-> IF pk = 0 THEN NaN ELSE frame[pk].wt * 1000,
          peak_age  |-> IF pk = 0 THEN 0 ELSE calculate_age(dob, frame[pk].date) ]

\* lines 182-203 for target Weight: the prediction at day offset d, milli-kg
Damped(base, scaled_delta, sim_age, s) ==
    base.current * 1000
      + (scaled_delta
           * (FRAC - estimate_rmr_adaptation(base.peak_w, base.peak_age,
                                             base.current * 1000 + scaled_delta,
                                             sim_age, s))) \div FRAC

Prediction(base, delta, d, dob, s) ==
    IF IsNaN(base.current) THEN NaN
    ELSE Damped(base, (delta * d) \div FORECAST_WINDOW,
                calculate_age(dob, base.last_date + d), s)

\* lines 77-98: the frame forecast_metric works on, df.sort_values("date")
\* .copy(): TrendCaloriesIn clipped at SAFE_MIN_CALORIES from below, and the
\* columns Age and RMR added
WorkingFrame(frame, dob, s) ==
    [i \in 1..Len(frame) |->
        [ date |-> frame[i].date,
          cal  |-> IF IsNaN(frame[i].cal) THEN NaN
                   ELSE Max2(frame[i].cal, SAFE_MIN_CALORIES),
          out  |-> frame[i].out,
          wt   |-> frame[i].wt,
          Age  |-> calculate_age(dob, frame[i].date),
          RMR  |-> RowRMR(frame[i], dob, s) ]]

\* the working frame being the caller's object itself, not a copy of it
AfterCallInPlace(frame, worked) == worked

\* line 77 (and feature_builder.py line 56, compliance_nb.py line 92): the
\* frame the caller holds after a call that worked on the frame worked.
\* Every operation assigns its columns to df.copy(), so it is the frame
\* the caller passed
AfterCall(frame, worked) == frame

(***************************************************************************)
(* src/watchdog/goal_check.py                                              *)
(***************************************************************************)
HORIZON_DAYS == 730

NoGoal == [given |-> FALSE, weight_kg |-> 0, date |-> 0, is_timestamp |-> TRUE]
\* the goal date is a pandas Timestamp, or the datetime.date that
\* tools/goal_info.py load_or_prompt_goal returns
GoalSet ==
    {[given |-> TRUE, weight_kg |-> 78, date |-> 40, is_timestamp |-> ts] : ts \in BOOLEAN}

\* a crossing counted on either side of the goal, whatever the direction
CrossesEitherWay(aiming_down, wt, goal_w) ==
    wt # NaN /\ (wt <= goal_w * 1000 \/ wt >= goal_w * 1000)

\* lines 49-55: does the forecast at offset d cross the goal in the
\* direction of travel
CrossesAt(aiming_down, wt, goal_w) ==
    /\ wt # NaN
    /\ \/ aiming_down /\ wt <= goal_w * 1000
       \/ ~aiming_down /\ wt >= goal_w * 1000

Crosses(base, delta, goal_w, d, dob, s) ==
    CrossesAt(base.current # NaN /\ goal_w < base.current,
              Prediction(base, delta, d, dob, s), goal_w)

\* the least day of a set of day offsets, 0 for the empty set
Least(S) == IF S = {} THEN 0 ELSE CHOOSE d \in S : \A e \in S : d <= e

\* lines 53-57: the loop over the forecast in day order, leaving at the
\* first day that crosses the goal; 0 when no day of the horizon does.
\* The days are scanned a month at a time: hit is the first crossing day
\* of the month lo..hi.
RECURSIVE FirstHit(_, _, _, _, _, _)
RECURSIVE FirstHitFrom(_, _, _, _, _, _, _)
FirstHitFrom(hit, base, delta, goal_w, hi, dob, s) ==
    IF hit # 0 THEN hit ELSE FirstHit(base, delta, goal_w, hi + 1, dob, s)

FirstHit(base, delta, goal_w, lo, dob, s) ==
    IF lo > HORIZON_DAYS THEN 0
    ELSE FirstHitFrom(
            Least({d \in lo..Min2(lo + 29, HORIZON_DAYS) :
                      Crosses(base, delta, goal_w, d, dob, s)}),
            base, delta, goal_w, Min2(lo + 29, HORIZON_DAYS), dob, s)

\* assess_goal_feasibility: [exc] when it raises, else [feasible, delta_days]
\* lines 59-74: the result for the first crossing day hit (0: never crossed)
Feasibility(hit, last_date, goal) ==
    IF hit = 0
    THEN [exc |-> None, feasible |-> FALSE, delta_days |-> 0]
    \* hit_date - goal_date: a Timestamp minus a datetime.date is a TypeError
    ELSE IF ~goal.is_timestamp THEN [exc |-> "TypeError"]
    ELSE [exc |-> None, feasible |-> TRUE, delta_days |-> last_date + hit - goal.date]

assess_goal_feasibility(frame, f, goal, dob, s) ==
    IF f.exc # None THEN [exc |-> f.exc]
    ELSE Feasibility(FirstHit(ForecastBase(frame, dob), f.delta, goal.weight_kg, 1, dob, s),
                     LastRow(frame).date, goal)


(***************************************************************************)
(* src/watchdog/rules.py.  A rule yields [exc, code]: the exception it     *)
(* raises, or the code of its alert (None for no alert).  The message of   *)
(* an alert is formatted from the same values and is not modelled.         *)
(***************************************************************************)
Ok(code) == [exc |-> None, code |-> code]

MeanLT(m, thr) == m.n > 0 /\ m.sum < thr * m.n

\* the alert raised at the floor itself as well
min_calorie_rule_at_floor(latest) ==
    Ok(IF latest.mean_cal_in.n > 0
          /\ latest.mean_cal_in.sum <= SAFE_MIN_CALORIES * latest.mean_cal_in.n
       THEN "UnsafeIntake" ELSE None)

min_calorie_rule(latest) ==
    Ok(IF MeanLT(latest.mean_cal_in, SAFE_MIN_CALORIES) THEN "UnsafeIntake" ELSE None)

rapid_loss_rule(latest) ==
    Ok(IF latest.wt_change # NaN /\ latest.wt_change < 0 - SAFE_MAX_WEIGHT_LOSS_RATE
       THEN "RapidWeightLoss" ELSE None)

rapid_gain_rule(latest) ==
    Ok(IF latest.wt_change # NaN /\ latest.wt_change > SAFE_MAX_WEIGHT_GAIN_RATE
       THEN "RapidWeightGain" ELSE None)

\* latest.rmr is in deci-kcal
rmr_floor_rule(latest) ==
    Ok(IF MeanLT(latest.rmr, RMR_FLOOR * 10) THEN "LowRMR" ELSE None)

deficit_no_loss_rule(latest) ==
    Ok(IF /\ MeanLT(latest.mean_net_cal, 0 - 500)
          /\ latest.wt_change # NaN /\ latest.wt_change > 0
       THEN "MismatchDeficit" ELSE None)

\* adaptation > ADAPT_THRESH, on the fraction num/den
plateau_adaptation_rule(latest) ==
    Ok(IF /\ latest.adaptation.den > 0
          /\ 100 * latest.adaptation.num > ADAPT_THRESH_PCT * latest.adaptation.den
       THEN "MetabolicAdapt" ELSE None)

\* pd.Timestamp.now().normalize(): the wall clock cut to its day
Today(clk) == clk \div 2

\* the gap taken on the clock as read, without normalize()
stale_data_rule_unnormalized(weekly, clk) ==
    Ok(IF clk - 2 * weekly[Len(weekly)].week_end_date > 2 * GAP_THRESH
       THEN "StaleData" ELSE None)

stale_data_rule(weekly, clk) ==
    LET gap == Today(clk) - weekly[Len(weekly)].week_end_date
    IN  Ok(IF gap > GAP_THRESH THEN "StaleData" ELSE None)

\* the drift alert raised from two weeks on, not from more than two weeks
GoalAlertFrom14(res) ==
    IF res.exc # None THEN [exc |-> res.exc, code |-> None]
    ELSE IF ~res.feasible THEN Ok("GoalNotReached")
    ELSE IF res.delta_days >= 14 \/ res.delta_days <= 0 - 14
    THEN [exc |-> None, code |-> "GoalTimingDrift",
          when |-> IF res.delta_days > 0 THEN "late" ELSE "early"]
    ELSE Ok(None)

\* lines 123-133: the alert for the result res of assess_goal_feasibility;
\* a drift alert carries the word its message is formatted with
GoalAlert(res) ==
    IF res.exc # None THEN [exc |-> res.exc, code |-> None]
    ELSE IF ~res.feasible THEN Ok("GoalNotReached")
    ELSE IF res.delta_days > 14 \/ res.delta_days < 0 - 14
    THEN [exc |-> None, code |-> "GoalTimingDrift",
          when |-> IF res.delta_days > 0 THEN "late" ELSE "early"]
    ELSE Ok(None)

goal_feasible_rule(goal, has_daily, frame, f, dob, s) ==
    IF ~goal.given \/ ~has_daily THEN Ok(None)
    ELSE GoalAlert(assess_goal_feasibility(frame, f, goal, dob, s))

ALL_RULES ==
    << "min_calorie_rule", "rapid_loss_rule", "rapid_gain_rule", "rmr_floor_rule",
       "deficit_no_loss_rule", "plateau_adaptation_rule", "stale_data_rule",
       "goal_feasible_rule" >>

\* rule_fn(latest, weekly) for the rules that take no context
BareRule(rule, latest, weekly, clk) ==
    CASE rule = "min_calorie_rule"        -> min_calorie_rule(latest)
      [] rule = "rapid_loss_rule"         -> rapid_loss_rule(latest)
      [] rule = "rapid_gain_rule"         -> rapid_gain_rule(latest)
      [] rule = "rmr_floor_rule"          -> rmr_floor_rule(latest)
      [] rule = "deficit_no_loss_rule"    -> deficit_no_loss_rule(latest)
      [] rule = "plateau_adaptation_rule" -> plateau_adaptation_rule(latest)
      [] rule = "stale_data_rule"         -> stale_data_rule(weekly, clk)

(***************************************************************************)
(* src/watchdog/dispatcher.py                                              *)
(***************************************************************************)
\* lines 38-42: the full-signature call; on TypeError the bare call
OrBareCall(out, frame, f, dob, s) ==
    IF out.exc = "TypeError"
    THEN goal_feasible_rule(NoGoal, FALSE, frame, f, dob, s)
    ELSE out

CallRule(rule, latest, weekly, clk, goal, frame, f, dob, s) ==
    IF rule # "goal_feasible_rule"   \* the only rule whose signature takes the context
    THEN BareRule(rule, latest, weekly, clk)        \* TypeError, then the bare call
    ELSE OrBareCall(goal_feasible_rule(goal, TRUE, frame, f, dob, s), frame, f, dob, s)

\* the codes of the outs that are alerts, in the order of outs
RECURSIVE Collect(_)
Collect(outs) ==
    IF outs = <<>> THEN <<>>
    ELSE IF Head(outs).code = None THEN Collect(Tail(outs))
    ELSE <<Head(outs).code>> \o Collect(Tail(outs))

Reverse(q) == [i \in 1..Len(q) |-> q[Len(q) + 1 - i]]

\* alerts.append(out) put in front of the list instead
RunRulesPrepend(outs) ==
    IF \E i \in 1..Len(outs) : outs[i].exc # None
    THEN [kind |-> "raised",
          exc  |-> outs[Least({i \in 1..Len(outs) : outs[i].exc # None})].exc,
          alerts |-> <<>>, outs |-> outs]
    ELSE [kind |-> "returned", exc |-> None,
          alerts |-> Reverse(Collect(outs)), outs |-> outs]

\* lines 37-47: the loop over ALL_RULES, outs[i] being what the call of rule
\* i does.  An exception other than TypeError leaves run_watchdog at the
\* first rule that raises, and the alerts gathered so far are lost;
\* otherwise every out that is not None is appended, in rule order.  The
\* outcome carries outs along, as the record of what each rule call did
RunRules(outs) ==
    IF \E i \in 1..Len(outs) : outs[i].exc # None
    THEN [kind |-> "raised",
          exc  |-> outs[Least({i \in 1..Len(outs) : outs[i].exc # None})].exc,
          alerts |-> <<>>, outs |-> outs]
    ELSE [kind |-> "returned", exc |-> None, alerts |-> Collect(outs), outs |-> outs]

\* lines 32-45 on a non-empty weekly frame
Dispatch(weekly, clk, goal, frame, f, dob, s) ==
    RunRules([i \in 1..Len(ALL_RULES) |->
                 CallRule(ALL_RULES[i], weekly[Len(weekly)], weekly, clk,
                          goal, frame, f, dob, s)])

\* an empty weekly frame answered with no alert at all
OnWeeklySilent(weekly, clk, goal, frame, f, dob, s) ==
    IF weekly = <<>>
    THEN [kind |-> "returned", exc |-> None, alerts |-> <<>>, outs |-> <<>>]
    ELSE Dispatch(weekly, clk, goal, frame, f, dob, s)

\* lines 27-30: the weekly frame is built, and an empty one answers NoData
OnWeekly(weekly, clk, goal, frame, f, dob, s) ==
    IF weekly = <<>>
    THEN [kind |-> "returned", exc |-> None, alerts |-> <<"NoData">>, outs |-> <<>>]
    ELSE Dispatch(weekly, clk, goal, frame, f, dob, s)

run_watchdog(frame, dob, s, goal, f, clk) ==
    OnWeekly(build_watchdog_features(frame, dob, s), clk, goal, frame, f, dob, s)

(***************************************************************************)
(* The advisory combiner (spec section 4.5)                                *)
(***************************************************************************)
CRITICAL == {"UnsafeIntake", "RapidWeightLoss", "RapidWeightGain", "LowRMR"}

Codes(alerts) == {alerts[i] : i \in 1..Len(alerts)}

\* a combiner whose critical set misses LowRMR
combine_lowrmr_not_critical(state, alerts) ==
    IF Codes(alerts) \cap (CRITICAL \ {"LowRMR"}) # {} THEN "off_track"
    ELSE IF "MetabolicAdapt" \in Codes(alerts) THEN "at_risk"
    ELSE state

\* a combiner that escalates an undecided classifier state
combine_unknown_escalated(state, alerts) ==
    IF Codes(alerts) \cap CRITICAL # {} THEN "off_track"
    ELSE IF "MetabolicAdapt" \in Codes(alerts) \/ state = "unknown" THEN "at_risk"
    ELSE state

combine(state, alerts) ==
    IF Codes(alerts) \cap CRITICAL # {} THEN "off_track"
    ELSE IF "MetabolicAdapt" \in Codes(alerts) THEN "at_risk"
    ELSE state


(***************************************************************************)
(* The watchdog state machine.  The environment logs days and sets or     *)
(* clears the goal; then run_watchdog is called twice on these arguments   *)
(* (frame, dob, sex, goal_info), with time passing between the calls.  wd  *)
(* holds the outcome and the wall-clock time of each of the two calls.     *)
(***************************************************************************)
NoResult == [kind |-> "none", exc |-> None, alerts |-> <<>>, outs |-> <<>>]
NoRun == [n |-> 0, res |-> NoResult, at |-> 0, prev |-> NoResult, prev_at |-> 0]
NoAdvice == [given |-> FALSE, state |-> "unknown", alerts |-> <<>>, final |-> "unknown"]

\* the components a specification does not exercise stay as constructed
WatchdogIdle ==
    /\ df = <<>>
    /\ fit = [exc |-> "ValueError", delta |-> 0]
    /\ goal_info = NoGoal
    /\ clock = 2 * 12
    /\ wd = NoRun

\* the model file: whether it exists, whether it holds a whole pickle, and
\* the classes_ of the model pickled in it
NoModel == [exists |-> FALSE, complete |-> FALSE, classes_ |-> <<>>]
NoPrediction ==
    [out |-> [kind |-> "none", exc |-> None, state |-> None, proba |-> <<>>, weeks |-> 0],
     model |-> NoModel, raw_proba |-> <<>>, cols |-> {}, weekly |-> <<>>,
     prev |-> [kind |-> "none", exc |-> None]]

ClassifierIdle ==
    /\ cf = <<>>
    /\ nb = NoModel
    /\ cls = NoPrediction

CleaningIdle ==
    /\ raw = [order |-> <<>>, val |-> <<>>]
    /\ span = 0
    /\ cleaned = [n |-> 0]
    /\ trended = [n |-> 0]

NoCall == [n |-> 0]
NoReport == [pc |-> "idle", fc |-> NoCall]
NoEstimate == [pc |-> "idle"]
NoWindows == [n |-> 0]

Init ==
    /\ WatchdogIdle
    /\ sex \in Sexes
    /\ advice = NoAdvice
    /\ ClassifierIdle
    /\ CleaningIdle
    /\ report = NoReport
    /\ est = NoEstimate
    /\ win = NoWindows

\* a new day's row reaches the frame (rows arrive in date order)
LogDay ==
    /\ wd.n = 0
    /\ Len(df) < MaxRows
    /\ \E r \in RowSet :
         /\ IF df = <<>> THEN TRUE ELSE r.date > LastRow(df).date
         /\ df' = Append(df, r)
    /\ fit' \in {[exc |-> "ValueError", delta |-> 0], [exc |-> None, delta |-> 0 - 2000]}
    /\ UNCHANGED <<sex, goal_info, clock, wd, advice, cf, nb, cls, raw, span, cleaned, trended, report, est, win>>

SetGoal ==
    /\ wd.n = 0
    /\ \E g \in GoalSet \cup {NoGoal} :
         /\ g # goal_info
         /\ goal_info' = g
    /\ UNCHANGED <<df, fit, sex, clock, wd, advice, cf, nb, cls, raw, span, cleaned, trended, report, est, win>>

Tick ==
    /\ wd.n = 1
    /\ clock < MaxClock
    /\ clock' = clock + 1
    /\ UNCHANGED <<df, fit, sex, goal_info, wd, advice, cf, nb, cls, raw, span, cleaned, trended, report, est, win>>

RunWatchdog ==
    /\ wd.n < 2
    /\ wd' = [n       |-> wd.n + 1,
              res     |-> run_watchdog(df, DobDay, sex, goal_info, fit, clock),
              at      |-> clock,
              prev    |-> wd.res,
              prev_at |-> wd.at]
    \* the goal rule runs the forecaster on df_daily when a goal is given
    /\ df' = AfterCall(df, IF goal_info.given /\ df # <<>>
                           THEN WorkingFrame(df, DobDay, sex) ELSE df)
    /\ UNCHANGED <<fit, sex, goal_info, clock, advice, cf, nb, cls, raw, span, cleaned, trended, report, est, win>>

Next == LogDay \/ SetGoal \/ Tick \/ RunWatchdog

Spec == Init /\ [][Next]_vars


(***************************************************************************)
(* The advisory step: the inputs are a classifier state and an alert list  *)
(* (every list run_watchdog can return, and every short list of codes in   *)
(* any order); the combine step is applied to them once.                   *)
(***************************************************************************)
MaxAlerts == 2

AllCodes ==
    {"UnsafeIntake", "RapidWeightLoss", "RapidWeightGain", "LowRMR",
     "MismatchDeficit", "MetabolicAdapt", "StaleData", "GoalNotReached",
     "GoalTimingDrift", "NoData"}

\* the position in ALL_RULES of the rule that emits a code
RuleIndex(code) ==
    CASE code = "UnsafeIntake"    -> 1
      [] code = "RapidWeightLoss" -> 2
      [] code = "RapidWeightGain" -> 3
      [] code = "LowRMR"          -> 4
      [] code = "MismatchDeficit" -> 5
      [] code = "MetabolicAdapt"  -> 6
      [] code = "StaleData"       -> 7
      [] code \in {"GoalNotReached", "GoalTimingDrift"} -> 8
      [] OTHER -> 0

RECURSIVE InRuleOrder(_)
InRuleOrder(S) ==
    IF S = {} THEN <<>>
    ELSE LET c == CHOOSE x \in S : \A y \in S : RuleIndex(x) <= RuleIndex(y)
         IN  <<c>> \o InRuleOrder(S \ {c})

\* the lists run_watchdog can return: one code per rule at most, in rule order
WatchdogLists ==
    { InRuleOrder(S) :
        S \in { T \in SUBSET (AllCodes \ {"NoData"}) :
                  ~({"GoalNotReached", "GoalTimingDrift"} \subseteq T) } }
    \cup {<<"NoData">>}

ShortLists == UNION { [1..n -> AllCodes] : n \in 0..MaxAlerts }

AdvInit ==
    /\ WatchdogIdle
    /\ sex = "male"
    /\ ClassifierIdle
    /\ CleaningIdle
    /\ report = NoReport
    /\ est = NoEstimate
    /\ win = NoWindows
    /\ advice \in [given : {FALSE}, state : {"on_track", "at_risk", "off_track", "unknown"},
                   alerts : WatchdogLists \cup ShortLists, final : {"unknown"}]

Combine ==
    /\ ~advice.given
    /\ advice' = [advice EXCEPT !.given = TRUE,
                                !.final = combine(advice.state, advice.alerts)]
    /\ UNCHANGED <<df, fit, sex, goal_info, clock, wd, cf, nb, cls, raw, span, cleaned, trended, report, est, win>>

AdvNext == Combine

SpecAdvisory == AdvInit /\ [][AdvNext]_vars

(***************************************************************************)
(* Properties of the advisory combiner                                     *)
(***************************************************************************)

\* C1: whatever the classifier state, an alert list holding a code of the
\* CRITICAL set gives the final state "off_track".
C1_CriticalForcesOffTrack ==
    (advice.given /\ Codes(advice.alerts) \cap CRITICAL # {}) => advice.final = "off_track"

\* an on_track week whose only critical alert is LowRMR, behind another alert
C1_Witness ==
    /\ advice.given
    /\ advice.state = "on_track"
    /\ Len(advice.alerts) >= 2
    /\ advice.alerts[1] \notin CRITICAL
    /\ Codes(advice.alerts) \cap CRITICAL = {"LowRMR"}
    /\ advice.final = "off_track"

\* C2: with no CRITICAL code in the list, the final state is "at_risk" when
\* MetabolicAdapt is present and the classifier's own state otherwise.
C2_AdaptThenClassifier ==
    (advice.given /\ Codes(advice.alerts) \cap CRITICAL = {}) =>
        advice.final = IF "MetabolicAdapt" \in Codes(advice.alerts)
                       THEN "at_risk" ELSE advice.state

\* an "unknown" classifier state passed through a list without CRITICAL or
\* MetabolicAdapt codes
C2_Witness ==
    /\ advice.given
    /\ advice.alerts # <<>>
    /\ Codes(advice.alerts) \cap CRITICAL = {}
    /\ "MetabolicAdapt" \notin Codes(advice.alerts)
    /\ advice.state = "unknown"
    /\ advice.final = "unknown"

(***************************************************************************)
(* Properties of run_watchdog                                              *)
(***************************************************************************)
\* C3: a rule that raises does not abort the pass: the call returns, and
\* the alert of every rule that does not raise is in the returned list.
C3_RuleFailureIsolated ==
    (wd.n > 0 /\ df # <<>>) =>
        /\ wd.res.kind = "returned"
        /\ \A i \in 1..Len(wd.res.outs) :
             (wd.res.outs[i].exc = None /\ wd.res.outs[i].code # None)
                 => wd.res.outs[i].code \in Codes(wd.res.alerts)

\* C4 as claimed: two calls on identical arguments return the same list,
\* whatever time passes between them.
C4_SameArgumentsSameAlerts ==
    wd.n >= 2 => wd.res = wd.prev

\* C4 as amended: two calls on identical arguments made on the same calendar
\* day return the same outcome.
C4_SameArgumentsSameDay ==
    (wd.n >= 2 /\ Today(wd.at) = Today(wd.prev_at)) => wd.res = wd.prev

\* two calls on one day, at different times of the day, with a StaleData alert
C4_Witness ==
    /\ wd.n >= 2
    /\ wd.at # wd.prev_at
    /\ Today(wd.at) = Today(wd.prev_at)
    /\ wd.res.kind = "returned"
    /\ "StaleData" \in Codes(wd.res.alerts)
    /\ wd.res = wd.prev

\* C5: on a non-empty weekly window the returned list holds at most one
\* alert per rule, in registration order, and a rule's alert is in the list
\* exactly when the rule, evaluated alone, emits it.
C5_OnePerRuleInOrder ==
    (wd.n > 0 /\ df # <<>> /\ wd.res.kind = "returned") =>
        LET a == wd.res.alerts
            alone == [i \in 1..Len(ALL_RULES) |-> wd.res.outs[i].code]
        IN  /\ \A j \in 1..Len(a) : RuleIndex(a[j]) \in 1..Len(ALL_RULES)
            /\ \A j \in 1..(Len(a) - 1) : RuleIndex(a[j]) < RuleIndex(a[j + 1])
            /\ \A i \in 1..Len(ALL_RULES) :
                 IF alone[i] = None
                 THEN \A j \in 1..Len(a) : RuleIndex(a[j]) # i
                 ELSE alone[i] \in Codes(a)

\* a returned list of three or more alerts that ends with the goal alert
C5_Witness ==
    /\ wd.n > 0
    /\ wd.res.kind = "returned"
    /\ Len(wd.res.alerts) >= 3
    /\ RuleIndex(wd.res.alerts[Len(wd.res.alerts)]) = 8
    /\ RuleIndex(wd.res.alerts[1]) < 4

(***************************************************************************)
(* src/classify/compliance_nb.py.  A row of the classifier's frame is      *)
(* [date, net, pa, wt]: TrendNetCalories, TrendActiveCaloriesBurned and    *)
(* TrendWeight, each a number or NaN.  The fitted GaussianNB is not        *)
(* modelled: the model file holds classes_, and predict_proba yields one   *)
(* probability per entry of classes_, in parts of 1/ProbaParts (they sum   *)
(* to one).                                                                *)
(***************************************************************************)
MaxCRows == 5
ProbaParts == 4
MIN_WEEKS == 4

CLASSES == <<"on_track", "at_risk", "off_track">>

CRowSet == [step : {1, 7}, net : {0 - 300}, pa : {400}, wt : {NaN, 80}]

\* line 53-60: the rows with no missing field
Complete(r) == r.net # NaN /\ r.pa # NaN /\ r.wt # NaN

\* lines 67-78: the aggregate of ISO week k over the complete rows
ClsWeeklyRow(rows, k) ==
    [ week_end_date |-> SeqMax([i \in 1..Len(rows) |-> rows[i].date]),
      mean_net_cal  |-> Mean([i \in 1..Len(rows) |-> rows[i].net]),
      mean_pa       |-> Mean([i \in 1..Len(rows) |-> rows[i].pa]),
      wt_change     |-> rows[Len(rows)].wt - rows[1].wt ]

InWeek(subset, k) == SelectSeq(subset, LAMBDA r : IsoWeek(r.date) = k)

WeeksOf(subset, ks) == [j \in 1..Len(ks) |-> ClsWeeklyRow(InWeek(subset, ks[j]), ks[j])]

\* lines 84-112: _ensure_features on a frame with the columns cols among
\* TrendNetCalories, TrendTDEE and TrendBasalCaloriesBurned.  The net field
\* of a row is its TrendNetCalories, given or derived from TrendCaloriesIn
\* and the expenditure columns; with none of these columns it is set to 0.0
ensure_features(frame, cols) ==
    [i \in 1..Len(frame) |-> [frame[i] EXCEPT !.net = IF cols = {} THEN 0 ELSE @]]

\* _prepare_weekly_features on the frame _ensure_features returned (lines
\* 52-82): dropna, then one row per ISO week in date order
prepare_weekly_features(frame) ==
    WeeksOf(SelectSeq(frame, Complete),
            SortedWeeks({IsoWeek(frame[i].date) : i \in {j \in 1..Len(frame) : Complete(frame[j])}}))

\* np.argmax: the first index holding the greatest value
ArgMax(p) == Least({i \in 1..Len(p) : \A j \in 1..Len(p) : p[j] <= p[i]})

\* the probability in position of CLASSES given to each class by position
PaddedRawProba(classes_, raw_proba) ==
    [i \in 1..Len(CLASSES) |-> IF i <= Len(raw_proba) THEN raw_proba[i] ELSE 0]

\* lines 169-170: dict(zip(classes_, raw_proba)) read in the order of CLASSES,
\* 0.0 for a class that is not a key
CanonicalProba(classes_, raw_proba) ==
    [i \in 1..Len(CLASSES) |->
        IF \E j \in 1..Len(classes_) : classes_[j] = CLASSES[i]
        THEN raw_proba[CHOOSE j \in 1..Len(classes_) : classes_[j] = CLASSES[i]]
        ELSE 0]

ZeroProba == [i \in 1..Len(CLASSES) |-> 0]

Returned(state, proba, weeks) ==
    [kind |-> "returned", exc |-> None, state |-> state, proba |-> proba, weeks |-> weeks]

\* lines 164-175
Classified(proba, n_weeks) == Returned(CLASSES[ArgMax(proba)], proba, n_weeks)

\* lines 139-175 with at least three weeks asked for
OnRecentMin3(weekly_recent, model, raw_proba) ==
    IF Len(weekly_recent) < 3 THEN Returned("unknown", ZeroProba, Len(weekly_recent))
    ELSE IF ~model.exists \/ ~model.complete
    THEN [kind |-> "raised",
          exc |-> IF model.exists THEN "EOFError" ELSE "FileNotFoundError",
          state |-> None, proba |-> <<>>, weeks |-> 0]
    ELSE Classified(CanonicalProba(model.classes_, raw_proba), Len(weekly_recent))

\* lines 139-175: the week-count check, then the model file, then the
\* prediction.  pickle.load raises EOFError on a file that holds no whole
\* pickle
OnRecent(weekly_recent, model, raw_proba) ==
    IF Len(weekly_recent) < MIN_WEEKS
    THEN Returned("unknown", ZeroProba, Len(weekly_recent))
    ELSE IF ~model.exists \/ ~model.complete
    THEN [kind |-> "raised",
          exc |-> IF model.exists THEN "EOFError" ELSE "FileNotFoundError",
          state |-> None, proba |-> <<>>, weeks |-> 0]
    ELSE Classified(CanonicalProba(model.classes_, raw_proba), Len(weekly_recent))

\* lines 133-139
OnClsWeekly(weekly, model, raw_proba) ==
    IF weekly = <<>> THEN Returned("unknown", ZeroProba, 0)
    ELSE OnRecent(Tail12(weekly), model, raw_proba)

\* predict_weekly_state; raw_proba is what predict_proba(X_recent)[-1] yields
predict_weekly_state(frame, model, raw_proba) ==
    OnClsWeekly(prepare_weekly_features(frame), model, raw_proba)


(***************************************************************************)
(* The classifier state machine.  Days are logged into the frame; the      *)
(* training routine writes the model file, in two steps; then              *)
(* predict_weekly_state is called, in one action, and called once more if  *)
(* it raised, the training routine running in between or not.  cls holds   *)
(* the outcome of the last call together with the model file it found and  *)
(* the raw probabilities behind a prediction.                              *)
(***************************************************************************)
\* label_week yields the three classes only, so classes_ lists some of
\* them, each once; any order is admitted
ClassOrders ==
    { c \in UNION { [1..n -> {CLASSES[i] : i \in 1..Len(CLASSES)}] : n \in 1..Len(CLASSES) } :
        \A i, j \in 1..Len(c) : i # j => c[i] # c[j] }

\* predict_proba: one probability per class of classes_, summing to one
\* (none without a model)
RawProbas(model) ==
    { p \in [1..Len(model.classes_) -> 0..ProbaParts] :
        SeqSum(p) = IF model.classes_ = <<>> THEN 0 ELSE ProbaParts }

ClsInit ==
    /\ WatchdogIdle
    /\ sex = "male"
    /\ advice = NoAdvice
    /\ ClassifierIdle
    /\ CleaningIdle
    /\ report = NoReport
    /\ est = NoEstimate
    /\ win = NoWindows

ClsLogDay ==
    /\ cls.out.kind = "none"
    /\ Len(cf) < MaxCRows
    /\ \E r \in CRowSet :
         cf' = Append(cf, [date |-> IF cf = <<>> THEN 0 ELSE cf[Len(cf)].date + r.step,
                           net |-> r.net, pa |-> r.pa, wt |-> r.wt])
    /\ UNCHANGED <<df, fit, sex, goal_info, clock, wd, advice, nb, cls,
                   raw, span, cleaned, trended, report, est, win>>

\* train_compliance_nb.main, line 79: open(MODEL_PATH, "wb") creates the
\* file or truncates the one in place; a first training or a retraining
TrainOpen ==
    /\ cls.out.kind \in {"none", "raised"}
    /\ nb.complete \/ ~nb.exists
    /\ nb' = [exists |-> TRUE, complete |-> FALSE, classes_ |-> <<>>]
    /\ UNCHANGED <<df, fit, sex, goal_info, clock, wd, advice, cf, cls,
                   raw, span, cleaned, trended, report, est, win>>

\* lines 80-81: pickle.dump(gnb, fh), and the file is closed
TrainDump ==
    /\ cls.out.kind \in {"none", "raised"}
    /\ nb.exists /\ ~nb.complete
    /\ \E c \in ClassOrders : nb' = [exists |-> TRUE, complete |-> TRUE, classes_ |-> c]
    /\ UNCHANGED <<df, fit, sex, goal_info, clock, wd, advice, cf, cls,
                   raw, span, cleaned, trended, report, est, win>>

\* the record of a call on features: its outcome, the model file and the
\* probabilities behind it, the columns of the frame, the weekly frame
\* built from it, and how the call before it ended
Predicted(features, model, raw_proba, cols) ==
    [out |-> predict_weekly_state(features, model, raw_proba), model |-> model,
     raw_proba |-> IF /\ Len(prepare_weekly_features(features)) >= MIN_WEEKS
                      /\ model.exists /\ model.complete
                   THEN raw_proba ELSE <<>>,
     cols |-> cols, weekly |-> prepare_weekly_features(features),
     prev |-> [kind |-> cls.out.kind, exc |-> cls.out.exc]]

\* predict_weekly_state on the frame, which has a TrendNetCalories column
\* or has neither it nor a column to derive it from
Predict ==
    /\ cls.out.kind = "none"
    /\ \E p \in RawProbas(nb), cols \in {{"TrendNetCalories"}, {}} :
         cls' = Predicted(ensure_features(cf, cols), nb, p, cols)
    /\ UNCHANGED <<df, fit, sex, goal_info, clock, wd, advice, cf, nb,
                   raw, span, cleaned, trended, report, est, win>>

\* the model a call works with, the file being file now and having been
\* seen at the call before: kept from that call
LoadedModelKept(file, seen) == seen

\* lines 154-162: the file is looked for and loaded inside every call
LoadedModel(file, seen) == file

\* predict_weekly_state again on the same frame, after a call that raised
Retry ==
    /\ cls.out.kind = "raised"
    /\ cls.prev.kind = "none"
    /\ \E p \in RawProbas(LoadedModel(nb, cls.model)) :
         cls' = Predicted(ensure_features(cf, cls.cols), LoadedModel(nb, cls.model), p, cls.cols)
    /\ UNCHANGED <<df, fit, sex, goal_info, clock, wd, advice, cf, nb,
                   raw, span, cleaned, trended, report, est, win>>

ClsNext == ClsLogDay \/ TrainOpen \/ TrainDump \/ Predict \/ Retry

SpecClassifier == ClsInit /\ [][ClsNext]_vars

(***************************************************************************)
(* Properties of predict_weekly_state                                      *)
(***************************************************************************)
\* the ISO weeks holding at least one row without a missing field
CompleteWeeks == {IsoWeek(cf[i].date) : i \in {j \in 1..Len(cf) : Complete(cf[j])}}

\* C6: with fewer than 4 aggregated weeks the call returns "unknown" with
\* probabilities [0, 0, 0]; with 4 or more weeks it returns whenever the
\* model file holds a model, and what it returns is one of the three classes.
C6_UnknownBelowFourWeeks ==
    cls.out.kind # "none" =>
        IF Cardinality(CompleteWeeks) < 4
        THEN /\ cls.out.kind = "returned"
             /\ cls.out.state = "unknown"
             /\ cls.out.proba = <<0, 0, 0>>
        ELSE /\ (cls.model.exists /\ cls.model.complete) => cls.out.kind = "returned"
             /\ cls.out.kind = "returned" => cls.out.state \in {CLASSES[i] : i \in 1..Len(CLASSES)}

\* exactly three aggregated weeks, a model file present, and "unknown" returned
C6_Witness ==
    /\ Cardinality(CompleteWeeks) = 3
    /\ cls.model.exists /\ cls.model.complete
    /\ cls.out.kind = "returned"
    /\ cls.out.state = "unknown"

\* C7: a returned state other than "unknown" comes with three probabilities
\* in the order (on_track, at_risk, off_track): each class of classes_ has
\* its raw probability at its position in that order, every other position
\* holds 0, and the three sum to one.
C7_CanonicalProbabilities ==
    (cls.out.kind = "returned" /\ cls.out.state # "unknown") =>
        /\ Len(cls.out.proba) = 3
        /\ \A j \in 1..Len(cls.model.classes_) :
             \A i \in 1..3 :
                CLASSES[i] = cls.model.classes_[j] => cls.out.proba[i] = cls.raw_proba[j]
        /\ \A i \in 1..3 :
             (\A j \in 1..Len(cls.model.classes_) : cls.model.classes_[j] # CLASSES[i])
                 => cls.out.proba[i] = 0
        /\ cls.out.proba[1] + cls.out.proba[2] + cls.out.proba[3] = ProbaParts

\* a model trained on two classes listed against the canonical order, with
\* both probabilities positive
C7_Witness ==
    /\ cls.out.kind = "returned"
    /\ cls.out.state # "unknown"
    /\ cls.model.classes_ = <<"off_track", "on_track">>
    /\ cls.raw_proba[1] > 0
    /\ cls.raw_proba[2] > cls.raw_proba[1]


(***************************************************************************)
(* src/clean/smooth_and_impute.py.  A frame is [order, val]: the column    *)
(* names in column order and the series of each column, one entry per row. *)
(* Rows are consecutive days in date order, row i being day i, so the      *)
(* time-proportional interpolation is linear in the row number.  Units:    *)
(* calories in kcal, weights in grams, body fat in permille, Age in days,  *)
(* RMR and TDEE_raw in deci-kcal, TDEE and PA in milli-kcal (the clamp     *)
(* adds 1e-3 kcal).  The columns written with a Greek delta in the code    *)
(* are spelled Delta here.                                                 *)
(***************************************************************************)
MaxDays == 12

CF == 1020
CL == 9500

excluded_metrics ==
    {"StepCount", "DistanceWalkingRunning", "EnergyBalance", "TDEE", "RMR", "PA"}

HasCol(f, c) == c \in DOMAIN f.val

\* df[c] = v: an existing column is overwritten in place, a new one is appended
SetCol(f, c, v) ==
    IF HasCol(f, c)
    THEN [order |-> f.order, val |-> [f.val EXCEPT ![c] = v]]
    ELSE [order |-> Append(f.order, c), val |-> (c :> v) @@ f.val]

\* the nearest defined entry before / after row i, 0 when there is none
PrevValid(x, i) ==
    IF \E j \in 1..(i - 1) : x[j] # NaN
    THEN CHOOSE j \in 1..(i - 1) : x[j] # NaN /\ \A k \in (j + 1)..(i - 1) : x[k] = NaN
    ELSE 0

NextValid(x, i) ==
    IF \E j \in (i + 1)..Len(x) : x[j] # NaN
    THEN CHOOSE j \in (i + 1)..Len(x) : x[j] # NaN /\ \A k \in (i + 1)..(j - 1) : x[k] = NaN
    ELSE 0

\* the value interpolate gives a missing row i lying between l and r
Filled(x, i, l, r, limit) ==
    IF l = 0 /\ r = 0 THEN NaN
    ELSE IF l = 0 THEN (IF r - i <= limit THEN x[r] ELSE NaN)
    ELSE IF r = 0 THEN (IF i - l <= limit THEN x[l] ELSE NaN)
    ELSE IF i - l <= limit \/ r - i <= limit
         THEN x[l] + ((x[r] - x[l]) * (i - l)) \div (r - l)
         ELSE NaN

\* Series.interpolate(method="time", limit=limit, limit_direction="both"):
\* of each run of missing rows, the first `limit` rows are filled forward
\* from the left neighbour and the last `limit` rows backward from the
\* right neighbour; rows before the first / after the last defined entry
\* take that entry
interpolate(x, limit) ==
    [i \in 1..Len(x) |->
        IF x[i] # NaN THEN x[i]
        ELSE Filled(x, i, PrevValid(x, i), NextValid(x, i), limit)]

RECURSIVE Pow(_, _)
Pow(b, e) == IF e = 0 THEN 1 ELSE b * Pow(b, e - 1)

\* one step of ewm(span, adjust=False) after k missing rows: the old value
\* weighs (1 - alpha)^(k + 1), the new one alpha = 2 / (span + 1)
EwmStep(y, v, sp, k) ==
    (Pow(sp - 1, k + 1) * y + 2 * Pow(sp + 1, k) * v)
        \div (Pow(sp - 1, k + 1) + 2 * Pow(sp + 1, k))

\* ewm(span=sp, adjust=False).mean() from row i on; y is the mean so far
\* (NaN before the first defined entry), k the missing rows since the last
\* defined entry.  A missing row repeats the mean so far.
RECURSIVE EwmFrom(_, _, _, _, _)
EwmFrom(x, sp, i, y, k) ==
    IF i > Len(x) THEN <<>>
    ELSE IF x[i] = NaN THEN <<y>> \o EwmFrom(x, sp, i + 1, y, k + 1)
    ELSE IF y = NaN THEN <<x[i]>> \o EwmFrom(x, sp, i + 1, x[i], 0)
    ELSE <<EwmStep(y, x[i], sp, k)>> \o EwmFrom(x, sp, i + 1, EwmStep(y, x[i], sp, k), 0)

ewm_mean(x, sp) == EwmFrom(x, sp, 1, NaN, 0)

\* the defined entries of x in rows lo..hi
Window(x, lo, hi) ==
    SelectSeq(SubSeq(x, Max2(lo, 1), Min2(hi, Len(x))), NotNaN)

MeanIf(v, min_periods) ==
    IF Len(v) >= min_periods /\ Len(v) > 0 THEN SeqSum(v) \div Len(v) ELSE NaN

\* rolling(window, center=True, min_periods).mean(), window odd
rolling_mean(x, window, min_periods) ==
    [i \in 1..Len(x) |->
        MeanIf(Window(x, i - (window - 1) \div 2, i + (window - 1) \div 2), min_periods)]

\* Series.diff(periods=1)
diff(x) ==
    [i \in 1..Len(x) |->
        IF i = 1 THEN NaN
        ELSE IF x[i] = NaN \/ x[i - 1] = NaN THEN NaN
        ELSE x[i] - x[i - 1]]


\* elementwise arithmetic on series: a missing operand gives a missing result
SeriesMinus(x, y) ==
    [i \in 1..Len(x) |-> IF x[i] = NaN \/ y[i] = NaN THEN NaN ELSE x[i] - y[i]]

SeriesPlus(x, y) ==
    [i \in 1..Len(x) |-> IF x[i] = NaN \/ y[i] = NaN THEN NaN ELSE x[i] + y[i]]

\* (1 - TrendBodyFatPercentage) * TrendWeight, body fat in permille
LeanMass(bf, w) ==
    [i \in 1..Len(w) |->
        IF bf[i] = NaN \/ w[i] = NaN THEN NaN ELSE ((1000 - bf[i]) * w[i]) \div 1000]

\* estimate_caloric_imbalance, mass changes in grams, result in kcal
estimate_caloric_imbalance(delta_fm, delta_ffm) ==
    (delta_fm * CL + delta_ffm * CF) \div 1000

\* the frame a call returns, or the exception it raises
Frame(f) == [exc |-> None, frame |-> f]
KeyErrorRaised == [exc |-> "KeyError", frame |-> [order |-> <<>>, val |-> <<>>]]

IsTarget(col) == col \notin excluded_metrics

\* every column of the model is numeric (the date is the index)
target_metrics(f) == SelectSeq(f.order, IsTarget)

TrendName(col) == "Trend" \o col

TrendValue(f, col, sp) ==
    IF col = "CaloriesIn" THEN interpolate(f.val[col], sp)
    ELSE IF col = "Weight"
         THEN rolling_mean(interpolate(f.val["Weight"], sp), 21, 7)
         ELSE ewm_mean(interpolate(f.val[col], sp), sp)

\* a variant of the loop body that also stores the interpolated values in
\* the raw column
LoopStepInPlace(f, col, sp) ==
    SetCol(SetCol(f, col, interpolate(f.val[col], sp)),
           TrendName(col), TrendValue(f, col, sp))

\* the loop body: the raw column is read, only Trend<col> is written
LoopStep(f, col, sp) == SetCol(f, TrendName(col), TrendValue(f, col, sp))

\* the loop over target_metrics, a list fixed before the loop starts
RECURSIVE TrendLoop(_, _, _, _)
TrendLoop(f, targets, i, sp) ==
    IF i > Len(targets) THEN f
    ELSE TrendLoop(LoopStep(f, targets[i], sp), targets, i + 1, sp)

LeanStep(f) ==
    IF HasCol(f, "TrendWeight") /\ HasCol(f, "TrendBodyFatPercentage")
    THEN SetCol(f, "TrendLeanBodyMass",
                LeanMass(f.val["TrendBodyFatPercentage"], f.val["TrendWeight"]))
    ELSE f

\* x.diff(periods=1).rolling(window=7, center=True, min_periods=1).mean()
SmoothedDelta(x) == rolling_mean(diff(x), 7, 1)

\* DeltaWeight and SmoothedDailyDeltaWeight
DeltaStep(f) ==
    SetCol(SetCol(f, "DeltaWeight", diff(f.val["TrendWeight"])),
           "SmoothedDailyDeltaWeight", SmoothedDelta(f.val["TrendWeight"]))

\* EnergyBalance from the smoothed fat and lean changes
LeanBalance(dfat, dlean) ==
    [i \in 1..Len(dfat) |->
        IF dfat[i] = NaN \/ dlean[i] = NaN THEN NaN
        ELSE estimate_caloric_imbalance(dfat[i], dlean[i])]

\* estimate_caloric_imbalance(dw * 0.85, dw * 0.15)
WeightBalance(dw) ==
    [i \in 1..Len(dw) |->
        IF dw[i] = NaN THEN NaN
        ELSE estimate_caloric_imbalance((dw[i] * 85) \div 100, (dw[i] * 15) \div 100)]

\* the columns of the branch with TrendLeanBodyMass, given the smoothed
\* weight and lean changes
LeanBranch(f, dw, dlean) ==
    SetCol(SetCol(SetCol(SetCol(f, "DeltaLean", diff(f.val["TrendLeanBodyMass"])),
                         "SmoothedDailyDeltaLean", dlean),
                  "SmoothedDailyDeltaFat", SeriesMinus(dw, dlean)),
           "EnergyBalance", LeanBalance(SeriesMinus(dw, dlean), dlean))

EnergyStep(f) ==
    IF HasCol(f, "TrendLeanBodyMass")
    THEN LeanBranch(f, f.val["SmoothedDailyDeltaWeight"],
                    SmoothedDelta(f.val["TrendLeanBodyMass"]))
    ELSE SetCol(f, "EnergyBalance", WeightBalance(f.val["SmoothedDailyDeltaWeight"]))

\* Age and RMR per row, row i being day i; calculate_rmr is not called on a
\* missing TrendWeight
AgeStep(f, dob, s) ==
    SetCol(SetCol(f, "Age", [i \in 1..Len(f.val["TrendWeight"]) |-> calculate_age(dob, i)]),
           "RMR", [i \in 1..Len(f.val["TrendWeight"]) |->
                      calculate_rmr(f.val["TrendWeight"][i], calculate_age(dob, i), s)])

\* Python's max(a, b): b only when b > a, so a missing a is returned as it
\* is and a missing b is ignored
PyMax(a, b) == IF a = NaN THEN NaN ELSE IF b = NaN THEN a ELSE IF b > a THEN b ELSE a

\* deci-kcal to milli-kcal
Milli(x) == IF x = NaN THEN NaN ELSE x * 100

\* a variant without the floor
Unclamped(tdee_raw, rmr) == Milli(tdee_raw)

\* max(row["TDEE_raw"], row["RMR"] + 1e-3), in milli-kcal
ClampedTdee(tdee_raw, rmr) ==
    PyMax(Milli(tdee_raw), IF rmr = NaN THEN NaN ELSE Milli(rmr) + 1)

\* TDEE, and PA = (TDEE - RMR).clip(lower=1e-3)
ClampStep(f, tdee, rmr) ==
    SetCol(SetCol(f, "TDEE", tdee),
           "PA", [i \in 1..Len(tdee) |->
                     IF tdee[i] = NaN \/ rmr[i] = NaN THEN NaN
                     ELSE Max2(tdee[i] - Milli(rmr[i]), 1)])

\* TDEE_raw = TrendCaloriesIn - EnergyBalance (in deci-kcal), then the clamp
TdeeStep(f, tdee_raw) ==
    ClampStep(SetCol(f, "TDEE_raw", tdee_raw),
              [i \in 1..Len(tdee_raw) |-> ClampedTdee(tdee_raw[i], f.val["RMR"][i])],
              f.val["RMR"])

Deci(x) == [i \in 1..Len(x) |-> IF x[i] = NaN THEN NaN ELSE x[i] * 10]

Physiology(f) ==
    TdeeStep(f, Deci(SeriesMinus(f.val["TrendCaloriesIn"], f.val["EnergyBalance"])))

\* the derived columns; df["TrendWeight"] and df["TrendCaloriesIn"] raise
\* KeyError when the column does not exist
Derived(f, dob, s) ==
    IF ~HasCol(f, "TrendWeight") \/ ~HasCol(f, "TrendCaloriesIn") THEN KeyErrorRaised
    ELSE Frame(Physiology(AgeStep(EnergyStep(DeltaStep(LeanStep(f))), dob, s)))

smooth_and_impute(frame, sp, dob, s) ==
    Derived(TrendLoop(frame, target_metrics(frame), 1, sp), dob, s)

(***************************************************************************)
(* src/tools/forecast_helpers.py: add_trend_columns.  Each derived column  *)
(* is computed only when it is not in the frame yet; a column it reads and *)
(* does not find raises KeyError.                                          *)
(***************************************************************************)
\* TrendWeight * (1 - TrendBodyFatPercentage)
LeanGuard(f) ==
    IF HasCol(f, "TrendLeanBodyMass") THEN Frame(f)
    ELSE IF ~HasCol(f, "TrendWeight") \/ ~HasCol(f, "TrendBodyFatPercentage")
         THEN KeyErrorRaised
    ELSE Frame(SetCol(f, "TrendLeanBodyMass",
                      LeanMass(f.val["TrendBodyFatPercentage"], f.val["TrendWeight"])))

NetGuard(f) ==
    IF HasCol(f, "TrendNetCalories") THEN LeanGuard(f)
    ELSE IF ~HasCol(f, "TrendCaloriesIn") THEN KeyErrorRaised
    ELSE LeanGuard(SetCol(f, "TrendNetCalories",
                          SeriesMinus(f.val["TrendCaloriesIn"], f.val["TrendTDEE"])))

add_trend_columns(f) ==
    IF HasCol(f, "TrendTDEE") THEN NetGuard(f)
    ELSE IF ~HasCol(f, "TrendBasalCaloriesBurned") \/ ~HasCol(f, "TrendActiveCaloriesBurned")
         THEN KeyErrorRaised
    ELSE NetGuard(SetCol(f, "TrendTDEE",
                         SeriesPlus(f.val["TrendBasalCaloriesBurned"],
                                    f.val["TrendActiveCaloriesBurned"])))

(***************************************************************************)
(* The cleaning machine: a raw daily frame of MaxDays consecutive days is  *)
(* cleaned, the derived trend columns are added, and both steps are run    *)
(* again on their own output.  Each raw column has one run of missing      *)
(* days.                                                                   *)
(***************************************************************************)
\* the runs of missing days: none, or 3, 7 or 10 days from day 1, 2 or 5
Gaps ==
    { {i \in 1..MaxDays : st <= i /\ i < st + ln} : st \in {1, 2, 5}, ln \in {0, 3, 7, 10} }

Series(base, step, gap) ==
    [i \in 1..MaxDays |-> IF i \in gap THEN NaN ELSE base + step * i]

\* intake and expenditure share the gap gc, weight and body fat the gap gw
RawFrame(gc, gw, has_bf) ==
    [order |-> <<"CaloriesIn", "Weight", "BasalCaloriesBurned", "ActiveCaloriesBurned">>
                   \o (IF has_bf THEN <<"BodyFatPercentage">> ELSE <<>>),
     val |-> ("CaloriesIn" :> Series(1500, 50, gc))
                 @@ ("Weight" :> Series(80000, 0 - 50, gw))
                 @@ ("BasalCaloriesBurned" :> Series(1700, 0, gc))
                 @@ ("ActiveCaloriesBurned" :> Series(400, 10, gc))
                 @@ (IF has_bf THEN ("BodyFatPercentage" :> Series(250, 0 - 1, gw))
                     ELSE <<>>)]

\* the frame with a logged LeanBodyMass column as well, missing on gap
WithLean(f, gap) ==
    [order |-> Append(f.order, "LeanBodyMass"),
     val |-> ("LeanBodyMass" :> Series(60000, 0 - 30, gap)) @@ f.val]

RawFrames ==
    {RawFrame(gc, gw, b) : gc \in Gaps, gw \in Gaps, b \in BOOLEAN}
        \cup {WithLean(RawFrame({}, gw, b), gw) : gw \in Gaps, b \in BOOLEAN}

\* a TrendTDEE column the caller computed by other means
PresetTDEE == [i \in 1..MaxDays |-> 2000 + i]

NoFrame == [exc |-> None, frame |-> [order |-> <<>>, val |-> <<>>]]

\* n calls made; in: the frame given to the last call of the first round
\* (for the rerun, the frame the rerun was given); out / again: results
NotCleaned == [n |-> 0, in |-> [order |-> <<>>, val |-> <<>>], out |-> NoFrame, again |-> NoFrame]

CleanInit ==
    /\ WatchdogIdle
    /\ advice = NoAdvice
    /\ ClassifierIdle
    /\ report = NoReport
    /\ est = NoEstimate
    /\ win = NoWindows
    /\ sex \in Sexes
    /\ raw \in RawFrames
    /\ span \in {2, 7}
    /\ cleaned = NotCleaned
    /\ trended = NotCleaned

SmoothAndImpute ==
    /\ cleaned.n = 0
    /\ cleaned' = [n |-> 1, in |-> raw, out |-> smooth_and_impute(raw, span, DobDay, sex),
                   again |-> NoFrame]
    /\ UNCHANGED <<df, fit, sex, goal_info, clock, wd, advice, cf, nb, cls,
                   raw, span, trended, report, est, win>>

\* the cleaned frame as it is, or with a TrendTDEE column already in it
AddTrendColumns ==
    /\ trended.n = 0
    /\ cleaned.n >= 1
    /\ cleaned.out.exc = None
    /\ \E f \in {cleaned.out.frame, SetCol(cleaned.out.frame, "TrendTDEE", PresetTDEE)} :
         trended' = [n |-> 1, in |-> f, out |-> add_trend_columns(f), again |-> NoFrame]
    /\ UNCHANGED <<df, fit, sex, goal_info, clock, wd, advice, cf, nb, cls,
                   raw, span, cleaned, report, est, win>>

AddTrendColumnsAgain ==
    /\ trended.n = 1
    /\ trended.out.exc = None
    /\ trended' = [trended EXCEPT !.n = 2, !.again = add_trend_columns(trended.out.frame)]
    /\ UNCHANGED <<df, fit, sex, goal_info, clock, wd, advice, cf, nb, cls,
                   raw, span, cleaned, report, est, win>>

\* the engine run on its own output: on the cleaned frame, or on the frame
\* add_trend_columns returned
Resmooth ==
    /\ cleaned.n = 1
    /\ cleaned.out.exc = None
    /\ \E f \in {cleaned.out.frame}
                  \cup (IF trended.n >= 1 /\ trended.out.exc = None
                        THEN {trended.out.frame} ELSE {}) :
         cleaned' = [n |-> 2, in |-> f, out |-> cleaned.out,
                     again |-> smooth_and_impute(f, span, DobDay, sex)]
    /\ UNCHANGED <<df, fit, sex, goal_info, clock, wd, advice, cf, nb, cls,
                   raw, span, trended, report, est, win>>

CleanNext == SmoothAndImpute \/ AddTrendColumns \/ AddTrendColumnsAgain \/ Resmooth

SpecCleaning == CleanInit /\ [][CleanNext]_vars


(***************************************************************************)
(* Properties of the cleaning step                                         *)
(***************************************************************************)
\* C8: interpolation bound.  TrendCaloriesIn is the interpolated CaloriesIn
\* series itself.  In every maximal run first..last of consecutive missing
\* days of CaloriesIn that is longer than span, at most span days have an
\* interpolated value, so at least (length - span) days of the run stay
\* undefined: a 10-day gap with span = 7 leaves at least 3 days undefined.
C8_InterpolationBound ==
    (cleaned.n >= 1 /\ cleaned.out.exc = None) =>
        \A first \in 1..MaxDays, last \in 1..MaxDays :
            ( /\ last - first + 1 > span
              /\ \A i \in first..last : raw.val["CaloriesIn"][i] = NaN
              /\ (first = 1 \/ raw.val["CaloriesIn"][first - 1] # NaN)
              /\ (last = MaxDays \/ raw.val["CaloriesIn"][last + 1] # NaN) )
            => Cardinality({i \in first..last :
                               cleaned.out.frame.val["TrendCaloriesIn"][i] = NaN})
                   >= (last - first + 1) - span

\* a column of the frame the first call returned
Column(c) == cleaned.out.frame.val[c]

\* C9 as claimed: in the frame smooth_and_impute returns, every row has a
\* defined RMR >= 0 and a defined TDEE >= RMR, also the rows where TDEE_raw
\* or TrendWeight is missing.
C9_EveryRowClamped ==
    (cleaned.n >= 1 /\ cleaned.out.exc = None) =>
        \A i \in 1..MaxDays :
            /\ Column("RMR")[i] # NaN /\ Column("RMR")[i] >= 0
            /\ Column("TDEE")[i] # NaN /\ Column("TDEE")[i] >= Milli(Column("RMR")[i])

\* C9 amended: RMR is >= 0 wherever it is defined, and it is defined
\* exactly where TrendWeight is.  On the rows where both RMR and TDEE_raw
\* are defined, TDEE > RMR (the floor is RMR + 1e-3).  A row with a missing
\* TDEE_raw has a missing TDEE; a row with a missing RMR keeps TDEE_raw as
\* its TDEE, unclamped.
C9_DefinedRowsClamped ==
    (cleaned.n >= 1 /\ cleaned.out.exc = None) =>
        \A i \in 1..MaxDays :
            /\ (Column("RMR")[i] = NaN) = (Column("TrendWeight")[i] = NaN)
            /\ Column("RMR")[i] # NaN => Column("RMR")[i] >= 0
            /\ Column("RMR")[i] # NaN /\ Column("TDEE_raw")[i] # NaN
                   => Column("TDEE")[i] # NaN /\ Column("TDEE")[i] > Milli(Column("RMR")[i])
            /\ Column("TDEE_raw")[i] = NaN => Column("TDEE")[i] = NaN
            /\ Column("RMR")[i] = NaN => Column("TDEE")[i] = Milli(Column("TDEE_raw")[i])

\* a cleaned frame with a row floored at RMR + 1e-3, a row left above the
\* floor, a row without TDEE_raw and a row without RMR but with TDEE_raw
C9_Witness ==
    /\ cleaned.n >= 1 /\ cleaned.out.exc = None
    /\ \E i \in 1..MaxDays :
          /\ Column("RMR")[i] # NaN /\ Column("TDEE_raw")[i] # NaN
          /\ Column("TDEE")[i] = Milli(Column("RMR")[i]) + 1
    /\ \E i \in 1..MaxDays :
          /\ Column("RMR")[i] # NaN /\ Column("TDEE_raw")[i] # NaN
          /\ Column("TDEE")[i] = Milli(Column("TDEE_raw")[i])
    /\ \E i \in 1..MaxDays : Column("RMR")[i] # NaN /\ Column("TDEE_raw")[i] = NaN
    /\ \E i \in 1..MaxDays : Column("RMR")[i] = NaN /\ Column("TDEE_raw")[i] # NaN

\* C10: idempotence of the trend step.  smooth_and_impute run on its own
\* output (or on the output of add_trend_columns) returns, and leaves every
\* Trend column of that frame as it was: every Trend<col> of a column of
\* the frame and the derived TrendLeanBodyMass, TrendTDEE, TrendNetCalories.
\* add_trend_columns applied to its own result returns the same frame, and
\* a call of add_trend_columns leaves every column already in its argument
\* as it was.
C10_TrendStepIdempotent ==
    /\ cleaned.n = 2 =>
          /\ cleaned.again.exc = None
          /\ \A c \in DOMAIN cleaned.in.val :
                ( \/ \E b \in DOMAIN cleaned.in.val : c = TrendName(b)
                  \/ c \in {"TrendLeanBodyMass", "TrendTDEE", "TrendNetCalories"} )
                => /\ HasCol(cleaned.again.frame, c)
                   /\ cleaned.again.frame.val[c] = cleaned.in.val[c]
    /\ trended.n = 2 => trended.again = trended.out
    /\ (trended.n >= 1 /\ trended.out.exc = None) =>
          \A c \in DOMAIN trended.in.val :
              /\ HasCol(trended.out.frame, c)
              /\ trended.out.frame.val[c] = trended.in.val[c]

\* both steps were run twice, on a frame with a gap that interpolation
\* filled only in part, with TrendTDEE already present at the first
\* add_trend_columns call, and the rerun of smooth_and_impute added columns
C10_Witness ==
    /\ cleaned.n = 2 /\ trended.n = 2
    /\ cleaned.again.exc = None /\ trended.again.exc = None
    /\ HasCol(trended.in, "TrendTDEE")
    /\ HasCol(cleaned.in, "TrendNetCalories")
    /\ HasCol(cleaned.again.frame, "TrendTrendCaloriesIn")
    /\ \E i \in 1..MaxDays :
          raw.val["CaloriesIn"][i] = NaN /\ cleaned.in.val["TrendCaloriesIn"][i] # NaN
    /\ \E i \in 1..MaxDays : cleaned.in.val["TrendCaloriesIn"][i] = NaN


Targets == {"Weight", "BodyFatPercentage", "CaloriesIn", "LeanBodyMass", "FatMass"}

AllTrends == {"TrendWeight", "TrendBodyFatPercentage", "TrendCaloriesIn", "TrendLeanBodyMass"}

\* further trend columns a cleaned frame may carry
MoreTrends ==
    {"TrendTDEE", "TrendNetCalories", "TrendStepCount", "TrendActiveCaloriesBurned"}

ReportFrames ==
    [ rows   : {60, 100, 130},
      cols   : { AllTrends, AllTrends \cup MoreTrends,
                 AllTrends \ {"TrendBodyFatPercentage", "TrendLeanBodyMass"},
                 AllTrends \ {"TrendCaloriesIn"} },
      wt     : {80000},
      peak_w : {80000, 95000},
      bf     : {200, 2500, 7000},
      cal    : {1000, 1800},
      last_date : {200},
      peak_date : {100} ]

\* the last value of Trend<target> in the frame the caller passes
TrendValue0(frame, target) ==
    CASE target = "Weight"            -> frame.wt
      [] target = "BodyFatPercentage" -> frame.bf
      [] target = "CaloriesIn"        -> frame.cal
      [] target = "LeanBodyMass"      -> (frame.wt * (FRAC - frame.bf)) \div FRAC

\* line 169: current_value = df[trend_target].iloc[-1], read from the working
\* copy: TrendCaloriesIn clipped at the floor (line 90), TrendLeanBodyMass
\* assigned anew from TrendWeight and TrendBodyFatPercentage (line 94)
current_value(frame, target) ==
    IF target = "CaloriesIn" THEN Max2(frame.cal, SAFE_MIN_CALORIES)
    ELSE TrendValue0(frame, target)

\* lines 132-147: the rows left by features.dropna() joined with the delta
\* target: the 60-day rolling mean is defined from row 60 on, its window-day
\* rolling mean from 20 rows later, the delta from row window + 1 on
Aligned(rows) == Max2(0, rows - (60 - 1) - (FORECAST_WINDOW - 1))

\* the final value without the clip of lines 200-201
final_value_unclipped(target, current, scaled_delta, adaptation) ==
    current + IF target \in {"Weight", "FatMass", "LeanBodyMass"}
              THEN (scaled_delta * (FRAC - adaptation)) \div FRAC
              ELSE scaled_delta

\* lines 190-201: adaptation damps the delta of the weight-related targets
\* only; BodyFatPercentage is clipped to [0.03, 0.60]
final_value(target, current, scaled_delta, adaptation) ==
    IF target = "BodyFatPercentage"
    THEN Min2(Max2(current + scaled_delta, 300), 6000)
    ELSE final_value_unclipped(target, current, scaled_delta, adaptation)

\* lines 182-203: the prediction at day offset d
PredictionAt(frame, target, cur, scaled_delta, d, dob, s) ==
    final_value(target, cur, scaled_delta,
                estimate_rmr_adaptation(frame.peak_w, calculate_age(dob, frame.peak_date),
                                        cur + scaled_delta,
                                        calculate_age(dob, frame.last_date + d), s))

\* lines 101-105, 154, 187: the regressor is fitted to the delta column,
\* which for BodyFatPercentage is the window-day change of the trend
\* multiplied by 100, so for a window-day change delta of the target's trend
\* model.predict yields delta in that column's unit
predicted_delta(target, delta) ==
    IF target = "BodyFatPercentage" THEN delta * 100 ELSE delta

Raised(exc, fitted) == [exc |-> exc, fitted |-> fitted, predictions |-> <<>>]

\* lines 90-203, past the check of the target's column.
\*   lines 90-94: KeyError when TrendCaloriesIn, TrendWeight or
\*                TrendBodyFatPercentage is not a column;
\*   lines 153-154: the regressor is fitted on the aligned rows, however
\*                  few; XGBoost refuses an empty training set;
\*   lines 178-203: one prediction per requested offset, delta being the
\*                  window-day change of Trend<target> the regressor foresees
ForecastOn(frame, target, days, delta, dob, s) ==
    IF {"TrendCaloriesIn", "TrendWeight", "TrendBodyFatPercentage"} \ frame.cols # {}
    THEN Raised("KeyError", FALSE)
    ELSE IF Aligned(frame.rows) = 0 THEN Raised("ValueError", FALSE)
    ELSE [ exc |-> None, fitted |-> TRUE,
           predictions |->
             [i \in 1..Len(days) |->
                PredictionAt(frame, target, current_value(frame, target),
                             (predicted_delta(target, delta) * days[i]) \div FORECAST_WINDOW,
                             days[i], dob, s)] ]

\* a forecaster that forecasts Weight when the target has no trend column
forecast_metric_weight_fallback(frame, target, days, delta, dob, s) ==
    ForecastOn(frame, IF TrendName(target) \in frame.cols THEN target ELSE "Weight",
               days, delta, dob, s)

\* forecast_metric: [exc, fitted, predictions].  exc is the exception raised
\* (None when it returns), fitted tells whether model.fit returned, and
\* predictions[i] is the value for the day offset forecast_days[i].
\* Lines 82-83: ValueError when Trend<target> is not a column of the frame
forecast_metric(frame, target, days, delta, dob, s) ==
    IF TrendName(target) \notin frame.cols THEN Raised("ValueError", FALSE)
    ELSE ForecastOn(frame, target, days, delta, dob, s)

\* line 55: top_n_features
TOP_N_FEATURES == 5

\* lines 93-94: the columns of the working copy once TrendFatMass and
\* TrendLeanBodyMass have been assigned
WorkingCols(cols) == cols \cup {"TrendFatMass", "TrendLeanBodyMass"}

\* lines 112-116
exclude(target) ==
    IF target = "BodyFatPercentage"
    THEN {"TrendNetCalories", "TrendTDEE", "TrendLeanBodyMass", "TrendFatMass", "TrendWeight"}
    ELSE {"TrendNetCalories", "TrendTDEE", "TrendLeanBodyMass"}

\* lines 118-119: every column of the working copy whose name starts with
\* Trend (all columns of the model do; the delta column, added at line 101,
\* is taken out by name) but the target's own and the excluded ones
candidate_features(cols, target) ==
    {c \in WorkingCols(cols) : c # TrendName(target) /\ c \notin exclude(target)}

\* lines 122-124: the top_n_features candidates of greatest absolute
\* correlation with the delta; the correlations are not modelled, so any
\* top_n_features of them, and all of them when there are no more
top_features(cols, target) ==
    {f \in SUBSET candidate_features(cols, target) :
        Cardinality(f) = Min2(TOP_N_FEATURES, Cardinality(candidate_features(cols, target)))}

(***************************************************************************)
(* The report pipeline, src/run.py main().  report is                      *)
(*   [pc, frame, ran, failed, errors, lines, asked, quit, saved, fc]:      *)
(* the step the pipeline is at, the frame load_cleaned_metrics returned,   *)
(* the steps that returned and those that raised, the messages handed to   *)
(* logger.error, the forecasts in forecast_log_lines, the requests read by *)
(* the forecast loop, whether the loop was left on 'q', whether            *)
(* forecast_session.txt was written, and the last forecast_metric call.    *)
(* A forecast_metric call made by another caller than run.py is recorded   *)
(* in fc alone.                                                            *)
(***************************************************************************)
MaxRequests == 2

DaysSet == {<<7>>, <<21, 42>>}
Deltas == {0 - 2000, 0, 2000}

STEPS == <<"plot", "describe", "correlate", "body", "loop">>

ReportInit ==
    /\ WatchdogIdle
    /\ sex \in Sexes
    /\ advice = NoAdvice
    /\ ClassifierIdle
    /\ CleaningIdle
    /\ report \in [ pc : {"plot"}, frame : ReportFrames, ran : {{}}, failed : {{}},
                    errors : {<<>>}, lines : {0}, asked : {0}, quit : {FALSE},
                    saved : {FALSE}, fc : {NoCall} ]
    /\ est = NoEstimate
    /\ win = NoWindows

\* the record of a forecast_metric call: its arguments, its outcome and the
\* features_used it returned (none when it raised)
Called(r, target, days, delta, s, feats) ==
    [ n |-> r.fc.n + 1, target |-> target, days |-> days, delta |-> delta,
      out |-> forecast_metric(r.frame, target, days, delta, DobDay, s),
      top_features |-> IF forecast_metric(r.frame, target, days, delta, DobDay, s).exc = None
                       THEN feats ELSE {} ]

\* forecast_metric called on the frame by a caller of its own
ForecastCall ==
    /\ report.pc = "plot"
    /\ report.fc.n = 0
    /\ \E target \in Targets, days \in DaysSet, delta \in Deltas :
          \E feats \in top_features(report.frame.cols, target) :
             report' = [report EXCEPT !.fc = Called(report, target, days, delta, sex, feats)]
    /\ UNCHANGED <<df, fit, sex, goal_info, clock, wd, advice, cf, nb, cls,
                   raw, span, cleaned, trended, est, win>>

\* lines 149, 287-288: what an exception raised inside the one try block of
\* main() does: it is logged, and main() ends
ExecutionFailed(r, step) ==
    [r EXCEPT !.failed = @ \cup {step},
              !.errors = Append(@, "Execution failed"),
              !.pc = "done"]

\* lines 152-187: plotting, descriptive statistics, correlation report and
\* body-composition analysis, each a call that returns or raises
ReportStep ==
    /\ report.pc \in {"plot", "describe", "correlate", "body"}
    /\ report.fc.n = 0
    /\ \E raises \in BOOLEAN, k \in 1..4 :
          /\ STEPS[k] = report.pc
          /\ report' = IF raises THEN ExecutionFailed(report, report.pc)
                       ELSE [report EXCEPT !.ran = @ \cup {report.pc}, !.pc = STEPS[k + 1]]
    /\ UNCHANGED <<df, fit, sex, goal_info, clock, wd, advice, cf, nb, cls,
                   raw, span, cleaned, trended, est, win>>

\* lines 194-200: the metrics offered for forecasting
metric_choices(frame) ==
    {t \in Targets : TrendName(t) \in frame.cols /\ t # "LeanBodyMass"}

\* lines 202-279: one pass of the forecast loop on the line read for the
\* metric and the days read (lines 228-240: every day must be a positive
\* integer).  forecast_metric is called at line 248 outside the inner
\* try, and again at line 256 inside it, with the same arguments
OnRequest(r, selected_input, days_input, called) ==
    IF selected_input = "q"
    THEN [r EXCEPT !.pc = "done", !.quit = TRUE, !.saved = (r.lines > 0)]
    ELSE IF selected_input \notin metric_choices(r.frame)
    THEN [r EXCEPT !.asked = @ + 1, !.errors = Append(@, "Invalid metric")]
    ELSE IF \E i \in 1..Len(days_input) : days_input[i] <= 0
    THEN [r EXCEPT !.asked = @ + 1, !.errors = Append(@, "Invalid forecast day format")]
    ELSE IF called.out.exc # None
    THEN [ExecutionFailed(r, "forecast") EXCEPT !.asked = @ + 1, !.fc = called]
    ELSE [r EXCEPT !.asked = @ + 1, !.fc = called,
                   !.ran = @ \cup {"forecast"}, !.lines = @ + 1]

Request ==
    /\ report.pc = "loop"
    /\ \E selected_input \in {"q", "bogus"} \cup Targets,
          days_input \in {<<0>>} \cup DaysSet, delta \in Deltas :
          /\ selected_input = "q" \/ report.asked < MaxRequests
          /\ \E feats \in top_features(report.frame.cols, selected_input) :
                report' = OnRequest(report, selected_input, days_input,
                                    Called(report, selected_input, days_input, delta, sex, feats))
    /\ UNCHANGED <<df, fit, sex, goal_info, clock, wd, advice, cf, nb, cls,
                   raw, span, cleaned, trended, est, win>>

ReportNext == ForecastCall \/ ReportStep \/ Request

SpecReport == ReportInit /\ [][ReportNext]_vars


(***************************************************************************)
(* Properties of forecast_metric and of the report pipeline                *)
(***************************************************************************)
\* C12: whenever the frame has no column Trend<target_metric>, whatever the
\* target metric, forecast_metric raises, returns no prediction and has
\* fitted no model; and the error reaches the caller of this forecast only:
\* a caller of its own sees nothing logged and no report step affected.
C12_MissingTrendColumnFails ==
    (report.fc.n > 0 /\ TrendName(report.fc.target) \notin report.frame.cols) =>
        /\ report.fc.out.exc # None
        /\ report.fc.out.predictions = <<>>
        /\ ~report.fc.out.fitted
        /\ report.pc = "plot" => report.errors = <<>> /\ report.failed = {}

\* forecast_metric was called for a target without a trend column on a
\* frame that has enough rows and every other column the forecast needs
C12_Witness ==
    /\ report.fc.n > 0
    /\ report.fc.target = "FatMass"
    /\ report.frame.cols = AllTrends
    /\ report.frame.rows = 130
    /\ report.fc.out.exc = "ValueError"

\* C13 as claimed: whenever fewer than 2 x window rows remain after the
\* feature rows and the delta targets are aligned, forecast_metric raises
\* an error and returns no prediction.
C13_TooFewRowsFails ==
    ( /\ report.fc.n > 0
      /\ {TrendName(report.fc.target), "TrendCaloriesIn", "TrendWeight",
          "TrendBodyFatPercentage"} \subseteq report.frame.cols
      /\ Aligned(report.frame.rows) < 2 * FORECAST_WINDOW )
    => report.fc.out.exc # None /\ report.fc.out.predictions = <<>>

\* C14 as claimed: with a predicted delta of zero every prediction is the
\* last Trend<target> value of the frame passed in, whatever the target.
C14_ZeroDeltaLastTrendValue ==
    (report.fc.n > 0 /\ report.fc.out.exc = None /\ report.fc.delta = 0) =>
        \A i \in 1..Len(report.fc.days) :
            report.fc.out.predictions[i] = TrendValue0(report.frame, report.fc.target)

\* C14 amended: with a predicted delta of zero every prediction is the last
\* Trend<target> value with the forecaster's two clamps applied and nothing
\* else: TrendCaloriesIn floored at SAFE_MIN_CALORIES, BodyFatPercentage
\* clipped to [0.03, 0.60].  For Weight and LeanBodyMass it is the last
\* trend value itself, whatever the adaptation at the simulated point.
C14_ZeroDeltaClampedTrendValue ==
    (report.fc.n > 0 /\ report.fc.out.exc = None /\ report.fc.delta = 0) =>
        \A i \in 1..Len(report.fc.days) :
            report.fc.out.predictions[i] =
                CASE report.fc.target = "BodyFatPercentage"
                        -> Min2(Max2(report.frame.bf, 300), 6000)
                  [] report.fc.target = "CaloriesIn"
                        -> Max2(report.frame.cal, SAFE_MIN_CALORIES)
                  [] OTHER -> TrendValue0(report.frame, report.fc.target)

\* a Weight forecast over two offsets with a predicted delta of zero, on a
\* frame whose weight is below its peak far enough for the adaptation at
\* the simulated point to be positive
C14_Witness ==
    /\ report.fc.n > 0 /\ report.fc.out.exc = None /\ report.fc.delta = 0
    /\ report.fc.target = "Weight"
    /\ Len(report.fc.days) = 2
    /\ estimate_rmr_adaptation(report.frame.peak_w,
                               calculate_age(DobDay, report.frame.peak_date),
                               report.frame.wt,
                               calculate_age(DobDay, report.frame.last_date + 21), sex) > 0
    /\ report.fc.out.predictions = <<report.frame.wt, report.frame.wt>>

\* C17 as claimed: when the pipeline has ended, every step of it was run,
\* whether it returned or raised, every failure was reported, the forecast
\* loop was left on the user's 'q' only, and the forecasts of the session
\* were written.
C17_FailureSkipsOnlyItsStep ==
    report.pc = "done" =>
        /\ {"plot", "describe", "correlate", "body"} \subseteq report.ran \cup report.failed
        /\ Len(report.errors) >= Cardinality(report.failed)
        /\ report.quit
        /\ report.lines > 0 => report.saved

(***************************************************************************)
(* The goal rule on its own: run_watchdog called with a goal on frames     *)
(* whose forecast succeeds or fails, for goals below, at and above the     *)
(* current trend weight and goal dates around the predicted date.          *)
(***************************************************************************)
GoalFrames ==
    LET day0 == {r \in RowSet : r.date = 0 /\ r.cal = SAFE_MIN_CALORIES}
        day7 == {r \in RowSet : r.date = 7 /\ r.cal = SAFE_MIN_CALORIES /\ r.wt # NaN}
    IN  {<<a>> : a \in day0}
          \cup {f \in {<<a, b>> : a \in day0, b \in day7} : f[1].wt \notin {NaN, f[2].wt}}

Goals ==
    [ given : {TRUE}, weight_kg : {78, 80, 82},
      date : {7, 8, 36, 37}, is_timestamp : {TRUE} ]

GoalInit ==
    /\ df \in GoalFrames
    /\ fit \in [exc : {"ValueError"}, delta : {0}] \cup [exc : {None}, delta : Deltas]
    /\ sex \in Sexes
    /\ goal_info \in Goals
    /\ clock = 2 * 12
    /\ wd = NoRun
    /\ advice = NoAdvice
    /\ ClassifierIdle
    /\ CleaningIdle
    /\ report = NoReport
    /\ est = NoEstimate
    /\ win = NoWindows

SpecGoal == GoalInit /\ [][RunWatchdog]_vars


C16_GoalAboveFallingTrend ==
    ( /\ wd.n >= 1 /\ wd.res.kind = "returned" /\ fit.exc = None /\ fit.delta < 0
      /\ LastRow(df).wt # NaN /\ goal_info.weight_kg > LastRow(df).wt )
    => /\ \A d \in 1..HORIZON_DAYS :
             /\ Prediction(ForecastBase(df, DobDay), fit.delta, d, DobDay, sex)
                   <= LastRow(df).wt * 1000
             /\ ~Crosses(ForecastBase(df, DobDay), fit.delta, goal_info.weight_kg,
                         d, DobDay, sex)
       /\ ~assess_goal_feasibility(df, fit, goal_info, DobDay, sex).feasible
       /\ "GoalNotReached" \in Codes(wd.res.alerts)

\* a call with goal 82 kg on a current trend weight of 80 kg, below the
\* frame's peak or at it, and a falling forecast
C16_Witness ==
    /\ wd.n >= 1 /\ wd.res.kind = "returned" /\ fit.exc = None /\ fit.delta < 0
    /\ LastRow(df).wt = 80 /\ goal_info.weight_kg = 82
    /\ Prediction(ForecastBase(df, DobDay), fit.delta, 30, DobDay, sex) < 80 * 1000
    /\ "GoalNotReached" \in Codes(wd.res.alerts)

(***************************************************************************)
(* Properties of the model file                                            *)
(***************************************************************************)
\* C18 as claimed: a predict_weekly_state call that runs while the model is
\* being written finds the whole old model or the whole new one: a call
\* fails on the model file only when there is no file at all.
C18_ReaderSeesWholeModel ==
    cls.out.kind = "raised" => (cls.out.exc = "FileNotFoundError" /\ ~cls.model.exists)

(***************************************************************************)
(* Properties of the watchdog state machine: the intake rule               *)
(***************************************************************************)
\* C20: a run_watchdog call that returns on a frame with rows lists
\* UnsafeIntake iff the mean TrendCaloriesIn over the rows of the latest ISO
\* week of the caller's frame is below 1200; at a mean of exactly 1200 it
\* does not.  This holds for a second call as well, made after a call whose
\* goal rule ran the forecast on the same frame.
C20_UnsafeIntakeBelowFloor ==
    (wd.n >= 1 /\ wd.res.kind = "returned" /\ df # <<>>) =>
        LET week == {i \in 1..Len(df) : IsoWeek(df[i].date) = IsoWeek(LastRow(df).date)}
            total == SeqSum([i \in 1..Len(df) |-> IF i \in week THEN df[i].cal ELSE 0])
        IN  ("UnsafeIntake" \in Codes(wd.res.alerts))
                = (total < SAFE_MIN_CALORIES * Cardinality(week))

\* a second call, after a first one whose forecast ran, on a frame whose
\* latest week averages exactly 1200 while an earlier week was below it
C20_Witness ==
    /\ wd.n = 2 /\ wd.res.kind = "returned" /\ wd.prev.kind = "returned"
    /\ goal_info.given /\ fit.exc = None
    /\ Len(df) = 2
    /\ IsoWeek(df[1].date) # IsoWeek(df[2].date)
    /\ df[1].cal < SAFE_MIN_CALORIES /\ df[2].cal = SAFE_MIN_CALORIES
    /\ "UnsafeIntake" \notin Codes(wd.res.alerts)

(***************************************************************************)
(* Properties of the weekly features                                       *)
(***************************************************************************)
\* C19 as claimed: when the frame has no TrendNetCalories column and none
\* of the columns it is derived from, the weekly features hold no defined
\* mean_net_cal: the field is left undefined, not set to zero.
C19_AbsentInputsStayUndefined ==
    (cls.out.kind # "none" /\ cls.cols = {}) =>
        \A j \in 1..Len(cls.weekly) : cls.weekly[j].mean_net_cal.n = 0

(***************************************************************************)
(* Properties of the classifier state machine: a missing model file        *)
(***************************************************************************)
\* C21: a predict_weekly_state call on at least 4 aggregated weeks with no
\* model file raises FileNotFoundError and returns no state; the call
\* changes neither the frame nor the model file; and the call made again on
\* the same frame once the training routine has written the model returns
\* one of the three classes.
C21_MissingModelRecoverable ==
    [][cls' # cls =>
        /\ cf' = cf /\ nb' = nb
        /\ (Len(cls'.weekly) >= MIN_WEEKS /\ ~nb.exists) =>
              /\ cls'.out.kind = "raised"
              /\ cls'.out.exc = "FileNotFoundError"
              /\ cls'.out.state = None
        /\ (cls.out.exc = "FileNotFoundError" /\ nb.exists /\ nb.complete) =>
              /\ cls'.out.kind = "returned"
              /\ cls'.out.state \in {CLASSES[i] : i \in 1..Len(CLASSES)}
              /\ cls'.weekly = cls.weekly]_vars

\* the first call raised for want of the model file, the training routine
\* then wrote it, and the second call on the same frame returned a class
C21_Witness ==
    /\ cls.prev.kind = "raised"
    /\ cls.prev.exc = "FileNotFoundError"
    /\ cls.model.exists /\ cls.model.complete
    /\ cls.out.kind = "returned"
    /\ cls.out.state = "at_risk"
    /\ Len(cls.weekly) >= MIN_WEEKS

(***************************************************************************)
(* Properties of forecast_metric: the features it returns                  *)
(***************************************************************************)
WeightAdjacent == {"Weight", "FatMass", "LeanBodyMass"}

\* C22 as claimed: the features_used of a forecast_metric call that returns
\* are at most top_n_features columns, never the target's own trend column,
\* and for Weight, FatMass and LeanBodyMass none of TrendTDEE,
\* TrendNetCalories, TrendLeanBodyMass, TrendFatMass.
C22_CandidateSetExcludesDependents ==
    (report.fc.n > 0 /\ report.fc.out.exc = None) =>
        /\ Cardinality(report.fc.top_features) <= TOP_N_FEATURES
        /\ TrendName(report.fc.target) \notin report.fc.top_features
        /\ report.fc.target \in WeightAdjacent =>
              report.fc.top_features
                 \cap {"TrendTDEE", "TrendNetCalories", "TrendLeanBodyMass", "TrendFatMass"} = {}

(***************************************************************************)
(* One pass of the forecast loop, forecast_metric.py lines 182-203, on its *)
(* own.  est holds the values the pass reads (the target, the current      *)
(* trend value, the predicted delta, the day offset, the peak-weight row)  *)
(* and what it yields.  np_floats tells whether the weights and the peak   *)
(* age are numpy.float64, as they are when read from the frame, or Python  *)
(* floats; the simulated age is a Python float in either case.             *)
(***************************************************************************)
\* energy.py line 43: the RMR before max(rmr, 0), in deci-kcal
raw_rmr(wmg, ageDays, s) == CPow(s, wmg) - (RMR_y(s) * ageDays * 4) \div 14610

\* whether calculate_rmr hands back a numpy.float64: max(weight, 0) is the
\* int 0 for a negative weight and max(rmr, 0) is the int 0 for a negative
\* rmr; otherwise the value keeps the kind of the weight and the age
IsNumpy(wmg, ageDays, s, np_weight, np_age) ==
    /\ raw_rmr(wmg, ageDays, s) >= 0
    /\ (np_weight /\ wmg >= 0) \/ np_age

\* line 40: rmr_now / rmr_start raises ZeroDivisionError when rmr_start is
\* zero and neither operand is a numpy.float64 (numpy yields inf or nan)
DivisionRaises(w_start, age_start, w_now, age_now, s, np_floats) ==
    /\ calculate_rmr(w_start, age_start, s) = 0
    /\ ~IsNumpy(w_start, age_start, s, np_floats, np_floats)
    /\ ~IsNumpy(w_now, age_now, s, np_floats, FALSE)

\* lines 38-40: whether estimate_rmr_adaptation raises
adaptation_raises(w_start, age_start, w_now, age_now, s, np_floats) ==
    DivisionRaises(w_start, age_start, w_now, age_now, s, np_floats)

\* weights, in milli-kg, that with the deltas and offsets put the simulated
\* weight on a node of the power table, at zero and below zero included
LoopInputs ==
    [ pc : {"call"}, target : Targets, current : {0, 80000},
      delta : {0 - 30000, 0, 30000}, days : {7, 21},
      peak_w : {0, 80000, 100000}, peak_date : {100}, last_date : {200},
      np_floats : BOOLEAN ]

AdaptInit ==
    /\ WatchdogIdle
    /\ sex \in Sexes
    /\ advice = NoAdvice
    /\ ClassifierIdle
    /\ CleaningIdle
    /\ report = NoReport
    /\ est \in LoopInputs
    /\ win = NoWindows

\* lines 186-203 for the offset e.days: [exc, applied, adaptation, final]
LoopPass(e, dob, s) ==
    IF e.target \notin {"Weight", "FatMass", "LeanBodyMass"}
    THEN [ exc |-> None, applied |-> FALSE, adaptation |-> 0,
           final |-> final_value(e.target, e.current,
                                 (e.delta * e.days) \div FORECAST_WINDOW, 0) ]
    ELSE IF adaptation_raises(e.peak_w, calculate_age(dob, e.peak_date),
                              e.current + (e.delta * e.days) \div FORECAST_WINDOW,
                              calculate_age(dob, e.last_date + e.days), s, e.np_floats)
    THEN [ exc |-> "ZeroDivisionError", applied |-> TRUE, adaptation |-> NaN, final |-> NaN ]
    ELSE [ exc |-> None, applied |-> TRUE,
           adaptation |->
              estimate_rmr_adaptation(e.peak_w, calculate_age(dob, e.peak_date),
                                      e.current + (e.delta * e.days) \div FORECAST_WINDOW,
                                      calculate_age(dob, e.last_date + e.days), s),
           final |-> PredictionAt(e, e.target, e.current,
                                  (e.delta * e.days) \div FORECAST_WINDOW, e.days, dob, s) ]

ForecastPass ==
    /\ est.pc = "call"
    /\ est' = [pc |-> "done", in |-> est, out |-> LoopPass(est, DobDay, sex)]
    /\ UNCHANGED <<df, fit, sex, goal_info, clock, wd, advice, cf, nb, cls,
                   raw, span, cleaned, trended, report, win>>

SpecAdaptation == AdaptInit /\ [][ForecastPass]_vars

(***************************************************************************)
(* Properties of the forecast loop                                         *)
(***************************************************************************)
Between(x, a, b) == (a <= x /\ x <= b) \/ (b <= x /\ x <= a)

\* C23 as claimed: every pass of the loop yields a value: the adaptation
\* is applied exactly for Weight, FatMass and LeanBodyMass, it is a fraction
\* between 0 and 1 whatever the simulated weight and the RMR at the peak,
\* and the damped value lies between the current value and the undamped
\* value current + delta * d / W.
C23_AdaptationIsFraction ==
    est.pc = "done" =>
        /\ est.out.exc = None
        /\ est.out.applied <=> est.in.target \in WeightAdjacent
        /\ est.out.applied =>
              /\ 0 <= est.out.adaptation /\ est.out.adaptation <= FRAC
              /\ Between(est.out.final, est.in.current,
                         est.in.current + (est.in.delta * est.in.days) \div FORECAST_WINDOW)

\* what holds of the passes that do not raise
AdaptationFractionUnlessRaised ==
    (est.pc = "done" /\ est.out.exc = None) =>
        /\ est.out.applied <=> est.in.target \in WeightAdjacent
        /\ est.out.applied =>
              /\ 0 <= est.out.adaptation /\ est.out.adaptation <= FRAC
              /\ Between(est.out.final, est.in.current,
                         est.in.current + (est.in.delta * est.in.days) \div FORECAST_WINDOW)

(***************************************************************************)
(* Properties of forecast_metric: the body-fat forecast                    *)
(***************************************************************************)
\* C24 as claimed: a BodyFatPercentage forecast at offset d is the current
\* trend value plus the foreseen window-day change of the trend scaled by
\* d / W, in the trend's own unit, clipped to [0.03, 0.60].
C24_BodyFatDeltaInTrendUnit ==
    ( /\ report.fc.n > 0 /\ report.fc.out.exc = None
      /\ report.fc.target = "BodyFatPercentage" ) =>
        \A i \in 1..Len(report.fc.days) :
            report.fc.out.predictions[i] =
                Min2(Max2(report.frame.bf
                            + (report.fc.delta * report.fc.days[i]) \div FORECAST_WINDOW,
                          300), 6000)

(***************************************************************************)
(* Properties of the cleaning step: lean body mass                         *)
(***************************************************************************)
\* C25 as claimed: the frame smooth_and_impute returns has a
\* TrendLeanBodyMass column exactly when it has TrendWeight and
\* TrendBodyFatPercentage, and the column is their product
\* TrendWeight x (1 - TrendBodyFatPercentage), whatever raw columns were
\* logged, a raw LeanBodyMass column included.
C25_LeanMassIsProduct ==
    (cleaned.n >= 1 /\ cleaned.out.exc = None) =>
        /\ HasCol(cleaned.out.frame, "TrendLeanBodyMass")
              <=> ( /\ HasCol(cleaned.out.frame, "TrendWeight")
                    /\ HasCol(cleaned.out.frame, "TrendBodyFatPercentage") )
        /\ HasCol(cleaned.out.frame, "TrendLeanBodyMass") =>
              Column("TrendLeanBodyMass")
                  = LeanMass(Column("TrendBodyFatPercentage"), Column("TrendWeight"))

\* what holds when body fat was logged: the product, also over a logged
\* LeanBodyMass column
LeanMassIsProductWithBodyFat ==
    (cleaned.n >= 1 /\ cleaned.out.exc = None /\ HasCol(raw, "BodyFatPercentage")) =>
        /\ HasCol(cleaned.out.frame, "TrendLeanBodyMass")
        /\ Column("TrendLeanBodyMass")
              = LeanMass(Column("TrendBodyFatPercentage"), Column("TrendWeight"))

(***************************************************************************)
(* Properties of the cleaning step: where a trend is defined               *)
(***************************************************************************)
\* whether column c of the raw frame has an observation within sp days of
\* day i (row i of the frame is day i)
ObservedNear(c, i, sp) ==
    \E j \in 1..MaxDays : raw.val[c][j] # NaN /\ j - i <= sp /\ i - j <= sp

\* C26 as claimed: in the frame smooth_and_impute returns, Trend<metric> is
\* defined on a day only if the raw metric has an observation within span
\* days of it, for every smoothed metric, the exponentially smoothed ones
\* included.
C26_TrendDefinedNearData ==
    (cleaned.n >= 1 /\ cleaned.out.exc = None) =>
        \A k \in 1..Len(raw.order) : \A i \in 1..MaxDays :
            Column(TrendName(raw.order[k]))[i] # NaN => ObservedNear(raw.order[k], i, span)

\* what holds of TrendCaloriesIn, the one trend that is not smoothed
CaloriesTrendDefinedNearData ==
    (cleaned.n >= 1 /\ cleaned.out.exc = None) =>
        \A i \in 1..MaxDays :
            Column("TrendCaloriesIn")[i] # NaN => ObservedNear("CaloriesIn", i, span)

(***************************************************************************)
(* The weekly windows on their own: build_watchdog_features on a daily     *)
(* frame and _prepare_weekly_features followed by tail(12) on the same     *)
(* days, for frames of 12 to 14 ISO weeks.  A frame has one row per week,  *)
(* one week may have a second row three days later, and the rows of some   *)
(* weeks have every trend value missing.  The rows come in date order, or  *)
(* with the two rows of one week swapped, or in reverse order.             *)
(***************************************************************************)
WeekPlans ==
    [ weeks : {12, 13, 14}, empty : {{}, {1}, {5}, {5, 12}, {12}},
      extra : {0, 3, 12}, order : {"sorted", "swapped", "reversed"} ]

\* row i of the plan's days in date order: [date, wt, empty]
PlanDay(p, i) ==
    IF p.extra # 0 /\ i = p.extra + 1
    THEN [date |-> 7 * (p.extra - 1) + 3, wt |-> 78 - p.extra, empty |-> p.extra \in p.empty]
    ELSE LET k == IF p.extra # 0 /\ i > p.extra THEN i - 1 ELSE i
         IN  [date |-> 7 * (k - 1), wt |-> 80 - k, empty |-> k \in p.empty]

PlanLen(p) == p.weeks + IF p.extra = 0 THEN 0 ELSE 1

PlanDays(p) ==
    CASE p.order = "sorted"   -> [i \in 1..PlanLen(p) |-> PlanDay(p, i)]
      [] p.order = "reversed" -> [i \in 1..PlanLen(p) |-> PlanDay(p, PlanLen(p) + 1 - i)]
      [] p.order = "swapped"  ->
            [i \in 1..PlanLen(p) |->
                PlanDay(p, IF p.extra = 0 THEN i
                           ELSE IF i = p.extra THEN i + 1
                           ELSE IF i = p.extra + 1 THEN i - 1 ELSE i)]

\* the day as a row of the watchdog's frame and of the classifier's frame
DailyRow(d) ==
    [date |-> d.date, cal |-> IF d.empty THEN NaN ELSE 1500, out |-> 1700,
     wt |-> IF d.empty THEN NaN ELSE d.wt]

FeatureRow(d) ==
    [date |-> d.date, net |-> IF d.empty THEN NaN ELSE 0 - 200,
     pa |-> IF d.empty THEN NaN ELSE 400, wt |-> IF d.empty THEN NaN ELSE d.wt]

WeeklyInit ==
    /\ \E p \in WeekPlans :
          /\ df = [i \in 1..PlanLen(p) |-> DailyRow(PlanDays(p)[i])]
          /\ cf = [i \in 1..PlanLen(p) |-> FeatureRow(PlanDays(p)[i])]
    /\ fit = [exc |-> "ValueError", delta |-> 0]
    /\ goal_info = NoGoal
    /\ clock = 2 * 12
    /\ wd = NoRun
    /\ sex \in Sexes
    /\ advice = NoAdvice
    /\ nb = NoModel
    /\ cls = NoPrediction
    /\ CleaningIdle
    /\ report = NoReport
    /\ est = NoEstimate
    /\ win = NoWindows

\* dispatcher.py line 27 and compliance_nb.py lines 133-139
BuildWindows ==
    /\ win.n = 0
    /\ win' = [n |-> 1,
               watchdog   |-> build_watchdog_features(df, DobDay, sex),
               classifier |-> Tail12(prepare_weekly_features(
                                        ensure_features(cf, {"TrendNetCalories"})))]
    /\ UNCHANGED <<df, fit, sex, goal_info, clock, wd, advice, cf, nb, cls,
                   raw, span, cleaned, trended, report, est>>

SpecWeekly == WeeklyInit /\ [][BuildWindows]_vars

(***************************************************************************)
(* Properties of the weekly windows                                        *)
(***************************************************************************)
\* the ISO weeks of the frame in which some row has a trend value
PopulatedWeeks == {IsoWeek(df[i].date) : i \in {j \in 1..Len(df) : df[j].wt # NaN \/ df[j].cal # NaN}}

\* the 12 greatest weeks of S
Recent12(S) == {k \in S : Cardinality({j \in S : j > k}) < WINDOW_WEEKS}

\* w has one row per week of S, in ascending week-end order
IsWindowOf(w, S) ==
    /\ Len(w) <= WINDOW_WEEKS
    /\ {IsoWeek(w[j].week_end_date) : j \in 1..Len(w)} = S
    /\ \A j \in 1..(Len(w) - 1) : IsoWeek(w[j].week_end_date) < IsoWeek(w[j + 1].week_end_date)

\* C27 as claimed: the watchdog's and the classifier's weekly window each
\* hold one row per ISO week, at most 12, for the 12 most recent populated
\* weeks in ascending week-end order, so that the last row is the latest
\* populated week; a week whose trend values are all missing is not among
\* them.
C27_WindowIsRecentPopulatedWeeks ==
    win.n = 1 =>
        /\ IsWindowOf(win.watchdog, Recent12(PopulatedWeeks))
        /\ IsWindowOf(win.classifier, Recent12(PopulatedWeeks))

\* what holds of the classifier's window, and of the watchdog's when all
\* weeks of the frame count, populated or not
WindowIsRecentWeeks ==
    win.n = 1 =>
        /\ IsWindowOf(win.classifier, Recent12(PopulatedWeeks))
        /\ IsWindowOf(win.watchdog, Recent12({IsoWeek(df[i].date) : i \in 1..Len(df)}))

(***************************************************************************)
(* Properties of the watchdog state machine: the NoData answer             *)
(***************************************************************************)
\* C28: a run_watchdog call on a frame whose weekly window is empty calls
\* no rule and returns the one alert NoData; a call on any other frame
\* returns no NoData alert, whether it returns or raises.
C28_NoDataIffEmptyWindow ==
    wd.n > 0 =>
        IF build_watchdog_features(df, DobDay, sex) = <<>>
        THEN /\ wd.res.kind = "returned"
             /\ wd.res.alerts = <<"NoData">>
             /\ wd.res.outs = <<>>
        ELSE /\ "NoData" \notin Codes(wd.res.alerts)
             /\ Len(wd.res.outs) = Len(ALL_RULES)

\* a call on the empty frame, with a goal given, answered with NoData
C28_Witness ==
    /\ wd.n > 0
    /\ df = <<>>
    /\ goal_info.given
    /\ wd.res.alerts = <<"NoData">>


(***************************************************************************)
(* Properties of the watchdog state machine: the context call              *)
(***************************************************************************)
\* C29 as claimed: in a run_watchdog call with a goal on a frame with rows,
\* what the call records for goal_feasible_rule is what the rule does when
\* it is called directly with the context (goal_info, df_daily, dob, sex),
\* a TypeError raised in the rule body included.
C29_GoalOutcomeIsDirectCall ==
    (wd.n > 0 /\ goal_info.given /\ df # <<>>) =>
        wd.res.outs[Len(ALL_RULES)]
            = goal_feasible_rule(goal_info, TRUE, df, fit, DobDay, sex)

\* what does hold: the two agree unless the direct call raises TypeError,
\* and then the call records the bare call's None
GoalOutcomeIsDirectCallUnlessTypeError ==
    (wd.n > 0 /\ goal_info.given /\ df # <<>>) =>
        LET direct == goal_feasible_rule(goal_info, TRUE, df, fit, DobDay, sex)
        IN  wd.res.outs[Len(ALL_RULES)]
              = IF direct.exc = "TypeError" THEN Ok(None) ELSE direct


(***************************************************************************)
(* Properties of the weekly windows: wt_change                             *)
(***************************************************************************)
WeekDates(frame, k) ==
    {frame[i].date : i \in {j \in 1..Len(frame) : IsoWeek(frame[j].date) = k}}

WtOn(frame, d) == frame[CHOOSE i \in 1..Len(frame) : frame[i].date = d].wt

\* the weight on the latest date of week k minus the weight on its earliest
ChangeByDate(frame, k) ==
    LET ds   == WeekDates(frame, k)
        a    == WtOn(frame, Least(ds))
        b    == WtOn(frame, CHOOSE d \in ds : \A e \in ds : e <= d)
    IN  IF IsNaN(a) \/ IsNaN(b) THEN NaN ELSE b - a

ChangesByDate(w, frame) ==
    \A j \in 1..Len(w) :
        w[j].wt_change = ChangeByDate(frame, IsoWeek(w[j].week_end_date))

DateSorted(frame) ==
    \A i \in 1..(Len(frame) - 1) : frame[i].date <= frame[i + 1].date

\* C30 as claimed: in the watchdog's and in the classifier's weekly window,
\* wt_change of every row is the trend weight on the latest date of the
\* row's ISO week minus the trend weight on its earliest date, whatever the
\* order of the rows in the daily frame.
C30_WtChangeByDate ==
    win.n = 1 =>
        /\ ChangesByDate(win.watchdog, df)
        /\ ChangesByDate(win.classifier, SelectSeq(cf, Complete))

\* what does hold: the same for a daily frame whose rows are in date order
WtChangeByDateWhenSorted ==
    (win.n = 1 /\ DateSorted(df) /\ DateSorted(cf)) =>
        /\ ChangesByDate(win.watchdog, df)
        /\ ChangesByDate(win.classifier, SelectSeq(cf, Complete))


=============================================================================
